---- MODULE Spec2Model ----
(***************************************************************************)
(* CareerGraph: the career graph store (PathNode / PathConnection rows),   *)
(* the Celery task update_career_graph that ingests one profile into it,   *)
(* and the query algorithms of CareerGraphAnalyzer.                        *)
(***************************************************************************)
EXTENDS Integers, Sequences, FiniteSets, TLC

(***************************************************************************)
(* Bounds                                                                  *)
(***************************************************************************)
NumProfiles == 3        \* LinkedInProfile ids 1..NumProfiles
MaxGraphNodes == 3      \* node ids of the graphs the path search is run on
MaxSearchDepth == 4     \* largest max_depth passed to the path search
MaxSeqLen == 3          \* longest career sequence given to the matcher
MaxPathLen == 3         \* longest selected path given to the matcher
MaxIngests == 2         \* update_career_graph runs started on a cold store (one more on a warm one)
MaxSelected == 2        \* longest selected path given to the analyzer's queries
MaxLoads == 2           \* _load_graph_data calls on one analyzer (the constructor's included)
DenseNodes == 5         \* nodes of the dense store: one university and the companies
MaxWeight == 3          \* largest edge weight of the dense store

WideTitles == 21        \* titles people at one company of the wide store went on to hold
NumTargets == 2         \* ScrapingTarget ids 1..NumTargets of the scraping job
NumUrls == 2            \* profile urls the searches of the targets come up with

\* max_depth = serializers.IntegerField(default=5, ...)
DefaultMaxDepth == 5

\* limit = serializers.IntegerField(default=20, min_value=1, max_value=100)
DefaultLimit == 20
MaxLimit == 100

Profiles == 1..NumProfiles
Targets == 1..NumTargets
Urls == 1..NumUrls
\* ScrapingResult ids: a job has at most one result for each url
Results == 1..NumUrls

\* SQL NULL, as it shows up in the LEFT OUTER JOIN over the profiles table
NULL == 0

(***************************************************************************)
(* State                                                                   *)
(***************************************************************************)
VARIABLES
    Education,       \* table: rows [id, profile, university, start_year, end_year]
    Experience,      \* table: rows [id, profile, company, title, start_date]
    UserQuery,       \* table: rows [selected_nodes, results_count], in creation order
    LinkedInProfile, \* table: the ids of the committed profiles
    CareerPath,      \* table: rows [profile, path_hash, university_sequence, company_sequence, title_sequence]
    ScrapingJob,     \* row of the scraping job: [status, profiles_scraped, profiles_failed]
    ScrapingResult,  \* table: rows [id, target, linkedin_url, profile_data, processing_status]
    view,            \* StartScrapingJobView.post: [pc, job], job the object it read
    main,            \* scrape_linkedin_profiles: [pc, job, todo, tasks], tasks the enqueued runs
    target,          \* scrape_target_profiles of each target: [pc, job, urls, scraped_count]
    proc,            \* process_scraped_profile of each result: [pc, tx], tx its open transaction
    gen,             \* generate_career_path of each profile: [tasks, runs, pc, path]
    update_queue,    \* update_career_graph tasks enqueued so far for each profile
    PathNode,        \* table: rows [id, type, value, profiles_count]
    PathConnection,  \* table: rows [id, from_node, to_node, weight, profiles]
    pc,              \* position of the update_career_graph task of each profile
    runs,            \* how many times the task of each profile was started
    nodes,           \* local list `nodes` (ids of the fetched PathNode objects)
    idx,             \* local loop index
    connection,      \* local `connection` object: [id, weight] as read
    count,           \* value assigned to node.profiles_count before node.save()
    graph,           \* CareerGraphAnalyzer.graph: [nodes, succ, attr, edge], successors in insertion order
    loader,          \* the analyzer's _load_graph_data call: [pc, init, todo, calls]
    load_log,        \* the "Loaded graph with N nodes and M edges" lines: [nodes, edges]
    start_node,      \* argument of the last _dfs_paths_from_node call
    max_depth,       \* argument of the last _dfs_paths_from_node call
    paths,           \* its result: list of paths (lists of node ids)
    profile_sequence,\* the career sequence _profile_matches_path scans
    selected_nodes,  \* the selected path of the last matcher or analyzer call
    matches,         \* the matcher's result << b >> (<< >> before the call)
    limit,           \* the limit argument of the last get_profiles_for_path call
    result           \* what the last call on the analyzer returned: [op, error, items, total]

jobVars == << ScrapingJob, view, main, target >>
pipeVars == << proc, gen, update_queue >>
scrapeVars == << ScrapingResult, jobVars, pipeVars >>
recordVars == << Education, Experience, UserQuery, LinkedInProfile, CareerPath, scrapeVars >>
storeVars == << PathNode, PathConnection >>
taskVars == << pc, runs, nodes, idx, connection, count >>
loadVars == << loader, load_log >>
searchVars == << graph, start_node, max_depth, paths >>
matchVars == << profile_sequence, selected_nodes, matches >>
answerVars == << limit, result >>
queryVars == << searchVars, matchVars, loadVars, answerVars >>

vars == << recordVars, storeVars, taskVars, queryVars >>

(***************************************************************************)
(* Profile records and the CareerPath generate_career_path derives from    *)
(* them                                                                    *)
(***************************************************************************)

\* a row comes before another when it is smaller on the first field of the
\* ordering on which they differ; rows equal on every field come in id order
RECURSIVE Before(_, _, _)
Before(a, b, fields) ==
    IF fields = << >> THEN a.id < b.id
    ELSE \/ a[Head(fields)] < b[Head(fields)]
         \/ a[Head(fields)] = b[Head(fields)] /\ Before(a, b, Tail(fields))

\* .order_by(*fields): the rows of a table in ascending order
OrderBy(rows, fields) ==
    [i \in 1..Cardinality(rows) |->
        CHOOSE r \in rows : Cardinality({q \in rows : Before(q, r, fields)}) = i - 1]

\* .order_by('start_year', 'end_year')
ByStartYearEndYear == << "start_year", "end_year" >>

\* .order_by('end_year')
ByEndYear == << "end_year" >>

\* .order_by('start_date')
ByStartDate == << "start_date" >>

\* profile.educations.all(), profile.experiences.all()
educations(p) == {e \in Education : e.profile = p}
experiences(p) == {e \in Experience : e.profile = p}

\* the sequences generate_career_path derives for profile p (the names only)
generate_career_path(p) ==
    LET edus == OrderBy(educations(p), ByStartYearEndYear)
        exps == OrderBy(experiences(p), ByStartDate)
    IN  [ university_sequence |-> [i \in 1..Len(edus) |-> edus[i].university],
          company_sequence    |-> [i \in 1..Len(exps) |-> exps[i].company],
          title_sequence      |-> [i \in 1..Len(exps) |-> exps[i].title] ]

\* path_hash: the sha256 of the sequences with their years and dates, kept
\* as what it is the digest of
path_hash(p) ==
    LET edus == OrderBy(educations(p), ByStartYearEndYear)
        exps == OrderBy(experiences(p), ByStartDate)
    IN  [ universities |-> [i \in 1..Len(edus) |->
                               << edus[i].university, edus[i].start_year, edus[i].end_year >>],
          companies    |-> [i \in 1..Len(exps) |->
                               << exps[i].company, exps[i].title, exps[i].start_date >>] ]

\* the row generate_career_path writes for profile p
CareerPathRow(p) ==
    [ profile |-> p,
      path_hash |-> path_hash(p),
      university_sequence |-> generate_career_path(p).university_sequence,
      company_sequence    |-> generate_career_path(p).company_sequence,
      title_sequence      |-> generate_career_path(p).title_sequence ]

\* CareerPath.objects.get(profile=profile) finds a row
HasCareerPath(p) == \E row \in CareerPath : row.profile = p

\* CareerPath.objects.get(profile=profile)
CareerPathOf(p) == CHOOSE row \in CareerPath : row.profile = p

\* the rows generate_career_path stored when it ran for the profiles one
\* after another: path_hash is unique, so of the profiles with the same
\* sequences, years and dates only the first has a row
StoredPaths ==
    {CareerPathRow(p) : p \in {q \in Profiles :
                                  \A o \in Profiles : o < q => path_hash(o) # path_hash(q)}}

\* the title of the one experience a profile has by default: every third
\* profile has a blank one
DefaultTitle(p) == IF p % 3 = 0 THEN "" ELSE IF p % 2 = 1 THEN "SWE" ELSE "PM"

\* by default every profile studied at MIT and then worked at Google
DefaultEducation(p) ==
    { [id |-> p, profile |-> p, university |-> "MIT", start_year |-> p, end_year |-> p + 4] }

DefaultExperience(p) ==
    { [id |-> p, profile |-> p, company |-> "Google", title |-> DefaultTitle(p),
       start_date |-> p + 5] }

DefaultRecords ==
    /\ Education = UNION {DefaultEducation(p) : p \in Profiles}
    /\ Experience = UNION {DefaultExperience(p) : p \in Profiles}

\* items of one sequence that pass the truthiness test, tagged with a type
RECURSIVE Tagged(_, _)
Tagged(type, values) ==
    IF values = << >> THEN << >>
    ELSE IF Head(values) = "" THEN Tagged(type, Tail(values))
    ELSE << [type |-> type, value |-> Head(values)] >> \o Tagged(type, Tail(values))

\* the (type, value) pairs update_career_graph get_or_creates, in loop order:
\* all universities, then all companies, then all titles
NodeItems(cp) ==
    Tagged("university", cp.university_sequence)
        \o Tagged("company", cp.company_sequence)
        \o Tagged("title", cp.title_sequence)

NoConnection == [id |-> 0, weight |-> 0]

RECURSIVE SumRuns(_, _)
SumRuns(r, n) == IF n = 0 THEN 0 ELSE r[n] + SumRuns(r, n - 1)

TotalRuns == SumRuns(runs, NumProfiles)

Active(p) == pc[p] \notin {"idle", "done", "failed"}

(***************************************************************************)
(* Table lookups                                                           *)
(***************************************************************************)
NodesMatching(type, value) == {n \in PathNode : n.type = type /\ n.value = value}

ConnsMatching(from, to) ==
    {c \in PathConnection : c.from_node = from /\ c.to_node = to}

\* PathConnection.objects.filter(from_node=node).values('profiles').distinct().count()
\* The join to the membership table is a LEFT OUTER JOIN: a connection without
\* members yields one row whose profile is NULL.
DistinctProfilesCount(node_id) ==
    Cardinality(UNION { IF c.profiles = {} THEN {NULL} ELSE c.profiles :
                        c \in {d \in PathConnection : d.from_node = node_id} })

(***************************************************************************)
(* Init: empty store, no task running, no analyzer constructed yet         *)
(***************************************************************************)
\* nx.DiGraph()
EmptyGraph == [nodes |-> {}, succ |-> << >>, attr |-> << >>, edge |-> << >>]

\* no CareerGraphAnalyzer object exists
NoLoader == [pc |-> "none", init |-> FALSE, todo |-> << >>, calls |-> 0]

NoResult == [op |-> "none", error |-> "", items |-> << >>, total |-> 0]

NoJob == [status |-> "none", profiles_scraped |-> 0, profiles_failed |-> 0]

\* a job as CreateScrapingJobView stores it
PendingJob == [status |-> "pending", profiles_scraped |-> 0, profiles_failed |-> 0]

NoTransaction == [profile |-> 0, education |-> {}, experience |-> {}]

\* no request and no task of the scraper is under way
NoScraping ==
    /\ ScrapingJob = PendingJob
    /\ ScrapingResult = {}
    /\ view = [pc |-> "idle", job |-> NoJob]
    /\ main = [pc |-> "idle", job |-> NoJob, todo |-> << >>, tasks |-> 0]
    /\ target = [t \in Targets |-> [pc |-> "idle", job |-> NoJob, urls |-> << >>,
                                     scraped_count |-> 0]]
    /\ proc = [r \in Results |-> [pc |-> "idle", tx |-> NoTransaction]]
    /\ gen = [p \in Profiles |-> [tasks |-> 0, runs |-> 0, pc |-> "idle", path |-> << >>]]
    /\ update_queue = [p \in Profiles |-> 0]

\* every profile was scraped and processed before, and its career path
\* generated from the records it has
Processed ==
    /\ UserQuery = << >>
    /\ LinkedInProfile = Profiles
    /\ CareerPath = StoredPaths
    /\ NoScraping

NoQuery ==
    /\ loader = NoLoader
    /\ load_log = << >>
    /\ limit = 0
    /\ Processed
    /\ result = NoResult
    /\ start_node = 0
    /\ max_depth = 0
    /\ paths = << >>
    /\ profile_sequence = << >>
    /\ selected_nodes = << >>
    /\ matches = << >>

Init ==
    /\ DefaultRecords
    /\ graph = EmptyGraph
    /\ NoQuery
    /\ PathNode = {}
    /\ PathConnection = {}
    /\ pc = [p \in Profiles |-> "idle"]
    /\ runs = [p \in Profiles |-> 0]
    /\ nodes = [p \in Profiles |-> << >>]
    /\ idx = [p \in Profiles |-> 0]
    /\ connection = [p \in Profiles |-> NoConnection]
    /\ count = [p \in Profiles |-> 0]

(***************************************************************************)
(* update_career_graph(profile_id), one action per database operation      *)
(***************************************************************************)

\* the task returns with the given outcome; its locals are gone
Return(p, outcome) ==
    /\ pc' = [pc EXCEPT ![p] = outcome]
    /\ nodes' = [nodes EXCEPT ![p] = << >>]
    /\ idx' = [idx EXCEPT ![p] = 0]
    /\ connection' = [connection EXCEPT ![p] = NoConnection]
    /\ count' = [count EXCEPT ![p] = 0]

\* the task is picked up; profile and career path are read, and a profile
\* without a career path is an error (at most `most` runs are started in all)
StartWithin(p, most) ==
    /\ ~Active(p)
    /\ TotalRuns < most
    /\ runs' = [runs EXCEPT ![p] = @ + 1]
    /\ IF ~HasCareerPath(p)
       THEN Return(p, "failed")
       ELSE IF NodeItems(CareerPathOf(p)) = << >>
       THEN Return(p, "done")
       ELSE /\ pc' = [pc EXCEPT ![p] = "get_node"]
            /\ idx' = [idx EXCEPT ![p] = 1]
            /\ UNCHANGED << nodes, connection, count >>
    /\ UNCHANGED << PathNode, PathConnection, recordVars, queryVars >>

Start(p) == StartWithin(p, MaxIngests)

\* where the task goes once node `idx` of the item list has been appended
AfterNode(p, newNodes) ==
    IF idx[p] < Len(NodeItems(CareerPathOf(p)))
    THEN /\ pc' = [pc EXCEPT ![p] = "get_node"]
         /\ idx' = [idx EXCEPT ![p] = @ + 1]
    ELSE /\ pc' = [pc EXCEPT ![p] = IF Len(newNodes) > 1 THEN "get_conn" ELSE "count_node"]
         /\ idx' = [idx EXCEPT ![p] = 1]

\* PathNode.objects.get_or_create: the SELECT
GetNode(p) ==
    /\ pc[p] = "get_node"
    /\ LET item == NodeItems(CareerPathOf(p))[idx[p]]
           found == NodesMatching(item.type, item.value)
       IN  IF found = {}
           THEN /\ pc' = [pc EXCEPT ![p] = "create_node"]
                /\ UNCHANGED << nodes, idx, connection, count >>
           ELSE IF Cardinality(found) > 1
           THEN \* MultipleObjectsReturned, caught by `except Exception`
                Return(p, "failed")
           ELSE LET newNodes == Append(nodes[p], (CHOOSE n \in found : TRUE).id)
                IN  /\ nodes' = [nodes EXCEPT ![p] = newNodes]
                    /\ AfterNode(p, newNodes)
                    /\ UNCHANGED << connection, count >>
    /\ UNCHANGED << PathNode, PathConnection, runs, recordVars, queryVars >>

\* an INSERT that ignores the unique constraint
InsertNode_NoConstraint(item) ==
    PathNode \cup {[id |-> Cardinality(PathNode) + 1, type |-> item.type,
                     value |-> item.value, profiles_count |-> 0]}

\* the INSERT into PathNode under unique_together (type, value): the row is
\* added unless the constraint rejects it (IntegrityError)
InsertNode(item) ==
    IF NodesMatching(item.type, item.value) = {}
    THEN PathNode \cup {[id |-> Cardinality(PathNode) + 1, type |-> item.type,
                         value |-> item.value, profiles_count |-> 0]}
    ELSE PathNode

\* PathNode.objects.get_or_create: the INSERT; on IntegrityError the row that
\* won the race is fetched instead
CreateNode(p) ==
    /\ pc[p] = "create_node"
    /\ LET item == NodeItems(CareerPathOf(p))[idx[p]]
           table == InsertNode(item)
           row == CHOOSE n \in table : /\ n.type = item.type
                                       /\ n.value = item.value
                                       /\ \A m \in table : (m.type = item.type /\ m.value = item.value)
                                                              => m.id <= n.id
           newNodes == Append(nodes[p], row.id)
       IN  /\ PathNode' = table
           /\ nodes' = [nodes EXCEPT ![p] = newNodes]
           /\ AfterNode(p, newNodes)
    /\ UNCHANGED << PathConnection, runs, connection, count, recordVars, queryVars >>

\* where the task goes once the connection of pair `idx` has its member
AfterConn(p) ==
    IF idx[p] < Len(nodes[p]) - 1
    THEN /\ pc' = [pc EXCEPT ![p] = "get_conn"]
         /\ idx' = [idx EXCEPT ![p] = @ + 1]
    ELSE /\ pc' = [pc EXCEPT ![p] = "count_node"]
         /\ idx' = [idx EXCEPT ![p] = 1]

\* PathConnection.objects.get_or_create: the SELECT
GetConn(p) ==
    /\ pc[p] = "get_conn"
    /\ LET found == ConnsMatching(nodes[p][idx[p]], nodes[p][idx[p] + 1])
       IN  IF found = {}
           THEN /\ pc' = [pc EXCEPT ![p] = "create_conn"]
                /\ UNCHANGED << nodes, idx, connection, count >>
           ELSE IF Cardinality(found) > 1
           THEN \* MultipleObjectsReturned, caught by `except Exception`
                Return(p, "failed")
           ELSE LET c == CHOOSE d \in found : TRUE
                IN  /\ pc' = [pc EXCEPT ![p] = "incr"]
                    /\ connection' = [connection EXCEPT ![p] =
                                          [id |-> c.id, weight |-> c.weight]]
                    /\ UNCHANGED << nodes, idx, count >>
    /\ UNCHANGED << PathNode, PathConnection, runs, recordVars, queryVars >>

\* an INSERT that ignores the unique constraint
InsertConn_NoConstraint(from, to) ==
    PathConnection \cup {[id |-> Cardinality(PathConnection) + 1, from_node |-> from,
                           to_node |-> to, weight |-> 1, profiles |-> {}]}

\* the INSERT into PathConnection under unique_together (from_node, to_node),
\* with defaults={'weight': 1} and no members yet
InsertConn(from, to) ==
    IF ConnsMatching(from, to) = {}
    THEN PathConnection \cup {[id |-> Cardinality(PathConnection) + 1, from_node |-> from,
                               to_node |-> to, weight |-> 1, profiles |-> {}]}
    ELSE PathConnection

\* PathConnection.objects.get_or_create: the INSERT; created = True skips the
\* increment, an IntegrityError fetches the winner's row with created = False
CreateConn(p) ==
    /\ pc[p] = "create_conn"
    /\ LET from == nodes[p][idx[p]]
           to == nodes[p][idx[p] + 1]
           created == ConnsMatching(from, to) = {}
           table == InsertConn(from, to)
           row == CHOOSE c \in table : /\ c.from_node = from
                                       /\ c.to_node = to
                                       /\ \A d \in table : (d.from_node = from /\ d.to_node = to)
                                                              => d.id <= c.id
       IN  /\ PathConnection' = table
           /\ connection' = [connection EXCEPT ![p] = [id |-> row.id, weight |-> row.weight]]
           /\ pc' = [pc EXCEPT ![p] = IF created THEN "add" ELSE "incr"]
    /\ UNCHANGED << PathNode, runs, nodes, idx, count, recordVars, queryVars >>

\* a save that forgets the increment
SavedWeight_NoIncrement(p) == connection[p].weight

\* connection.weight += 1 on the object read by get_or_create
SavedWeight(p) == connection[p].weight + 1

\* if not created: connection.weight += 1; connection.save()
Incr(p) ==
    /\ pc[p] = "incr"
    /\ PathConnection' = {IF c.id = connection[p].id
                           THEN [c EXCEPT !.weight = SavedWeight(p)] ELSE c :
                          c \in PathConnection}
    /\ connection' = [connection EXCEPT ![p].weight = SavedWeight(p)]
    /\ pc' = [pc EXCEPT ![p] = "add"]
    /\ UNCHANGED << PathNode, runs, nodes, idx, count, recordVars, queryVars >>

\* an add that also puts the two ends of the connection into the graph of
\* the analyzer
AddProfile_IntoGraph(p) ==
    /\ pc[p] = "add"
    /\ PathConnection' = {IF c.id = connection[p].id
                           THEN [c EXCEPT !.profiles = @ \cup {p}] ELSE c :
                          c \in PathConnection}
    /\ AfterConn(p)
    /\ graph' = [graph EXCEPT !.nodes = @ \cup {nodes[p][idx[p]], nodes[p][idx[p] + 1]}]
    /\ UNCHANGED << PathNode, runs, nodes, connection, count, recordVars,
                    start_node, max_depth, paths, matchVars, loadVars, answerVars >>

\* connection.profiles.add(profile)
AddProfile(p) ==
    /\ pc[p] = "add"
    /\ PathConnection' = {IF c.id = connection[p].id
                           THEN [c EXCEPT !.profiles = @ \cup {p}] ELSE c :
                          c \in PathConnection}
    /\ AfterConn(p)
    /\ UNCHANGED << PathNode, runs, nodes, connection, count, recordVars, queryVars >>

\* node.profiles_count = PathConnection.objects.filter(from_node=node)
\*                           .values('profiles').distinct().count()
CountNode(p) ==
    /\ pc[p] = "count_node"
    /\ count' = [count EXCEPT ![p] = DistinctProfilesCount(nodes[p][idx[p]])]
    /\ pc' = [pc EXCEPT ![p] = "save_node"]
    /\ UNCHANGED << PathNode, PathConnection, runs, nodes, idx, connection, recordVars, queryVars >>

\* node.save()
SaveNode(p) ==
    /\ pc[p] = "save_node"
    /\ PathNode' = {IF n.id = nodes[p][idx[p]]
                     THEN [n EXCEPT !.profiles_count = count[p]] ELSE n :
                    n \in PathNode}
    /\ IF idx[p] < Len(nodes[p])
       THEN /\ pc' = [pc EXCEPT ![p] = "count_node"]
            /\ idx' = [idx EXCEPT ![p] = @ + 1]
            /\ UNCHANGED << nodes, connection, count >>
       ELSE Return(p, "done")
    /\ UNCHANGED << PathConnection, runs, recordVars, queryVars >>

\* a database operation raises; `except Exception` logs it and the task ends,
\* with every write made so far committed (autocommit, no transaction)
Fail(p) ==
    /\ Active(p)
    /\ Return(p, "failed")
    /\ UNCHANGED << PathNode, PathConnection, runs, recordVars, queryVars >>

Step(p) ==
    \/ GetNode(p) \/ CreateNode(p)
    \/ GetConn(p) \/ CreateConn(p) \/ Incr(p) \/ AddProfile(p)
    \/ CountNode(p) \/ SaveNode(p)

\* Celery workers run the tasks of different profiles concurrently, and any
\* database operation of any task may raise
Next == \E p \in Profiles : Start(p) \/ Step(p) \/ Fail(p)

Spec == Init /\ [][Next]_vars

(***************************************************************************)
(* Ingests run one after another, none failing (a single worker)           *)
(***************************************************************************)
Quiescent == \A p \in Profiles : ~Active(p)

SeqStart(p) == Quiescent /\ StartWithin(p, MaxIngests + 1)

SeqNext == \E p \in Profiles : SeqStart(p) \/ Step(p)

SeqSpec == Init /\ [][SeqNext]_vars

(***************************************************************************)
(* Concurrent ingests over an edge that already exists: the store is the   *)
(* one an earlier ingest of profile 3 (MIT -> Google) left behind, and     *)
(* `runs` counts the runs started from then on                             *)
(***************************************************************************)
WarmStore ==
    /\ PathNode = { [id |-> 1, type |-> "university", value |-> "MIT", profiles_count |-> 1],
                    [id |-> 2, type |-> "company", value |-> "Google", profiles_count |-> 0] }
    /\ PathConnection = { [id |-> 1, from_node |-> 1, to_node |-> 2, weight |-> 1,
                           profiles |-> {3}] }

WarmInit ==
    /\ DefaultRecords
    /\ WarmStore
    /\ pc = [p \in Profiles |-> "idle"]
    /\ runs = [p \in Profiles |-> 0]
    /\ nodes = [p \in Profiles |-> << >>]
    /\ idx = [p \in Profiles |-> 0]
    /\ connection = [p \in Profiles |-> NoConnection]
    /\ count = [p \in Profiles |-> 0]
    /\ graph = EmptyGraph
    /\ NoQuery

WarmStart(p) == StartWithin(p, MaxIngests + 1)

WarmNext == \E p \in Profiles : WarmStart(p) \/ Step(p)

WarmSpec == WarmInit /\ [][WarmNext]_vars

\* the warm store is what the ingest of profile 3 alone produces
WarmStoreAfterIngest == WarmStore /\ Quiescent /\ pc[3] = "done" /\ runs[3] = 1

(***************************************************************************)
(* Properties of the store                                                 *)
(***************************************************************************)
NodeOf(id) == CHOOSE n \in PathNode : n.id = id

\* the connections from the node (type a) to the node (type b)
ConnsBetween(a, b) ==
    {c \in PathConnection : /\ NodeOf(c.from_node).type = a.type
                            /\ NodeOf(c.from_node).value = a.value
                            /\ NodeOf(c.to_node).type = b.type
                            /\ NodeOf(c.to_node).value = b.value}

MIT == [type |-> "university", value |-> "MIT"]
Google == [type |-> "company", value |-> "Google"]

\* every task that ever ran has run once and returned normally
EachIngestedOnce == \A p \in Profiles : pc[p] \in {"idle", "done"} /\ runs[p] <= 1

\* C1: after any sequence of ingest runs, repeated ingests of one profile
\* included, every edge's weight is the number of profiles in its membership
C1_WeightEqualsMembers ==
    (\A p \in Profiles : pc[p] \in {"idle", "done"})
        => \A c \in PathConnection : c.weight = Cardinality(c.profiles)

\* C2: two concurrent ingests of two different profiles over an edge that
\* already exists (weight 1, member 3) leave it with weight 1 + 2 and with
\* both profiles as members
C2_NoLostUpdate ==
    (/\ pc[1] = "done" /\ runs[1] = 1
     /\ pc[2] = "done" /\ runs[2] = 1
     /\ runs[3] = 0)
        => \A c \in ConnsBetween(MIT, Google) :
               c.weight = 3 /\ {1, 2} \subseteq c.profiles

\* C3: once every started ingest has finished, the stored profiles_count of
\* every node is the number of distinct profiles over its outgoing edges
C3_PopularityIsDistinctCount ==
    EachIngestedOnce
        => \A n \in PathNode :
               n.profiles_count =
                   Cardinality(UNION {c.profiles : c \in {d \in PathConnection :
                                                              d.from_node = n.id}})

\* C4: an ingest that fails leaves the store as it was before it started
\* (here: the first ingest ever, so the store it started on is empty)
C4_FailedIngestLeavesNoTrace ==
    \A p \in Profiles :
        (pc[p] = "failed" /\ TotalRuns = 1) => (PathNode = {} /\ PathConnection = {})

\* C5: no step of any execution decreases the weight of an edge
C5_WeightNeverDecreases ==
    [][\A c \in PathConnection : \A d \in PathConnection' :
            d.id = c.id => d.weight >= c.weight]_vars

\* how often the transition a -> b occurs in the node list built for p
Occurrences(p, a, b) ==
    LET items == NodeItems(CareerPathOf(p))
    IN  Cardinality({i \in 1..(Len(items) - 1) : items[i] = a /\ items[i + 1] = b})

AllItems == UNION {{NodeItems(CareerPathOf(p))[i] : i \in 1..Len(NodeItems(CareerPathOf(p)))} :
                   p \in Profiles}

\* C6: after k distinct profiles were ingested one after another, each once
\* and each with the transition a -> b once, there is exactly one edge
\* a -> b, of weight k, whose members are those k profiles
C6_SharedEdgeAccumulates ==
    EachIngestedOnce
        => \A a \in AllItems : \A b \in AllItems :
               LET K == {p \in Profiles : pc[p] = "done" /\ Occurrences(p, a, b) > 0}
               IN  (K # {} /\ \A p \in K : Occurrences(p, a, b) = 1)
                       => /\ Cardinality(ConnsBetween(a, b)) = 1
                          /\ \A c \in ConnsBetween(a, b) :
                                 c.weight = Cardinality(K) /\ c.profiles = K

\* three profiles ingested once each, MIT -> Google shared by all of them
C6_Witness ==
    /\ EachIngestedOnce
    /\ \E c \in ConnsBetween(MIT, Google) :
           c.weight = 3 /\ c.profiles = {p \in Profiles : pc[p] = "done"}

\* C7: at most one node per (type, value) and at most one edge per ordered
\* (from_node, to_node) pair, in every reachable state
C7_Uniqueness ==
    /\ \A n \in PathNode : \A m \in PathNode :
           (n.type = m.type /\ n.value = m.value) => n = m
    /\ \A c \in PathConnection : \A d \in PathConnection :
           (c.from_node = d.from_node /\ c.to_node = d.to_node) => c = d

\* two concurrent ingests hold the same two nodes and both missed the edge
\* in their SELECT; one INSERT went through, the other task is about to run
\* its own
C7_Witness ==
    \E p \in Profiles : \E q \in Profiles :
        /\ p # q
        /\ Active(p)
        /\ pc[q] = "create_conn"
        /\ nodes[p] # << >>
        /\ ConnsMatching(nodes[q][idx[q]], nodes[q][idx[q] + 1]) # {}

(***************************************************************************)
(* CareerGraphAnalyzer._dfs_paths_from_node                                *)
(***************************************************************************)
Range(seq) == {seq[i] : i \in 1..Len(seq)}

RECURSIVE dfs(_, _, _, _), dfs_successors(_, _, _, _)

\* the successor loop without the `successor not in path` test
dfs_successors_NoCycleTest(succs, path, depth, maxd) ==
    IF succs = << >> THEN << >>
    ELSE dfs(Head(succs), Append(path, Head(succs)), depth + 1, maxd)
             \o dfs_successors(Tail(succs), path, depth, maxd)

\* for successor in self.graph.successors(current_node): ... ; the paths the
\* loop appends, in order
dfs_successors(succs, path, depth, maxd) ==
    IF succs = << >> THEN << >>
    ELSE (IF Head(succs) \notin Range(path)
          THEN dfs(Head(succs), Append(path, Head(succs)), depth + 1, maxd)
          ELSE << >>)
             \o dfs_successors(Tail(succs), path, depth, maxd)

\* dfs without the depth test
dfs_NoDepthTest(current_node, path, depth, maxd) ==
    (IF Len(path) > 1 THEN << path >> ELSE << >>)
        \o dfs_successors(graph.succ[current_node], path, depth, maxd)

\* the inner dfs(current_node, path, depth); the paths it appends, in order
dfs(current_node, path, depth, maxd) ==
    IF depth >= maxd THEN << >>
    ELSE (IF Len(path) > 1 THEN << path >> ELSE << >>)
             \o dfs_successors(graph.succ[current_node], path, depth, maxd)

dfs_paths_from_node(start, maxd) == dfs(start, << start >>, 0, maxd)

\* the ids of a set in ascending order
RECURSIVE Ascending(_)
Ascending(S) ==
    IF S = {} THEN << >>
    ELSE LET m == CHOOSE x \in S : \A y \in S : x <= y
         IN  << m >> \o Ascending(S \ {m})

GraphNodes == 1..MaxGraphNodes

\* the graph with the successor sets adj: node 1 is a university, the others
\* are companies, every edge has weight 1 and no members
GraphOver(adj) ==
    [ nodes |-> GraphNodes,
      succ  |-> [n \in GraphNodes |-> Ascending(adj[n])],
      attr  |-> [n \in GraphNodes |->
                    [type |-> IF n = 1 THEN "university" ELSE "company",
                     value |-> <<"MIT", "Google", "Meta", "Apple", "Amazon">>[n],
                     profiles_count |-> 0]],
      edge  |-> [e \in {d \in GraphNodes \X GraphNodes : d[2] \in adj[d[1]]} |->
                    [weight |-> 1, profiles |-> << >>]] ]

\* the analyzer holds any directed graph over GraphNodes, self-loops and
\* cycles included; the store and the tasks play no part
SearchInit ==
    /\ DefaultRecords
    /\ PathNode = {}
    /\ PathConnection = {}
    /\ pc = [p \in Profiles |-> "idle"]
    /\ runs = [p \in Profiles |-> 0]
    /\ nodes = [p \in Profiles |-> << >>]
    /\ idx = [p \in Profiles |-> 0]
    /\ connection = [p \in Profiles |-> NoConnection]
    /\ count = [p \in Profiles |-> 0]
    /\ NoQuery
    /\ \E adj \in [GraphNodes -> SUBSET GraphNodes] : graph = GraphOver(adj)

\* one call of _dfs_paths_from_node(start, d)
Search(start, d) ==
    /\ start_node = 0
    /\ start_node' = start
    /\ max_depth' = d
    /\ paths' = dfs_paths_from_node(start, d)
    /\ UNCHANGED << recordVars, storeVars, taskVars, graph, matchVars, loadVars, answerVars >>

SearchNext == \E start \in graph.nodes : \E d \in 0..MaxSearchDepth : Search(start, d)

SearchSpec == SearchInit /\ [][SearchNext]_vars

\* C8: no path returned by the path search contains a node twice
C8_PathsAreSimple ==
    \A i \in 1..Len(paths) :
        \A j \in 1..Len(paths[i]) : \A k \in 1..Len(paths[i]) :
            j # k => paths[i][j] # paths[i][k]

\* a search over a graph with a self-loop on the start node and a cycle back
\* to it returned a path of three nodes that a further step would close
C8_Witness ==
    /\ start_node # 0
    /\ start_node \in Range(graph.succ[start_node])
    /\ \E i \in 1..Len(paths) :
           /\ Len(paths[i]) = 3
           /\ start_node \in Range(graph.succ[paths[i][3]])

\* C9: no path returned for max_depth = d has more than d edges
C9_DepthBound ==
    \A i \in 1..Len(paths) : Len(paths[i]) - 1 <= max_depth

\* the depth bound cut the search: a returned path could be extended by an
\* unvisited successor, and no returned path is longer
C9_Witness ==
    /\ start_node # 0
    /\ \E i \in 1..Len(paths) :
           /\ Range(graph.succ[paths[i][Len(paths[i])]]) \ Range(paths[i]) # {}
           /\ \A k \in 1..Len(paths) : Len(paths[k]) <= Len(paths[i])

(***************************************************************************)
(* CareerGraphAnalyzer._profile_matches_path: the cursor scan              *)
(***************************************************************************)
RECURSIVE scan(_, _, _, _)

\* a scan that compares the values only
scan_ValueOnly(seq, sel, i, selected_index) ==
    IF i > Len(seq) THEN selected_index
    ELSE scan(seq, sel, i + 1,
              IF /\ selected_index < Len(sel)
                 /\ seq[i].value = sel[selected_index + 1].value
              THEN selected_index + 1 ELSE selected_index)

\* for seq_item in profile_sequence: advance selected_index when the item
\* equals selected_nodes[selected_index] on type and value; from item i on
scan(seq, sel, i, selected_index) ==
    IF i > Len(seq) THEN selected_index
    ELSE scan(seq, sel, i + 1,
              IF /\ selected_index < Len(sel)
                 /\ seq[i].type = sel[selected_index + 1].type
                 /\ seq[i].value = sel[selected_index + 1].value
              THEN selected_index + 1 ELSE selected_index)

\* return selected_index == len(selected_nodes)
profile_matches_path(seq, sel) == scan(seq, sel, 1, 0) = Len(sel)

\* descriptors the matcher is fed: one per type, and a title that carries
\* the name of a company
MatchItems ==
    { [type |-> "university", value |-> "MIT"],
      [type |-> "company", value |-> "Google"],
      [type |-> "title", value |-> "SWE"],
      [type |-> "title", value |-> "Google"] }

SeqsUpTo(S, n) == UNION {[1..k -> S] : k \in 0..n}

MatchInit ==
    /\ DefaultRecords
    /\ PathNode = {}
    /\ PathConnection = {}
    /\ pc = [p \in Profiles |-> "idle"]
    /\ runs = [p \in Profiles |-> 0]
    /\ nodes = [p \in Profiles |-> << >>]
    /\ idx = [p \in Profiles |-> 0]
    /\ connection = [p \in Profiles |-> NoConnection]
    /\ count = [p \in Profiles |-> 0]
    /\ graph = EmptyGraph
    /\ loader = NoLoader
    /\ load_log = << >>
    /\ limit = 0
    /\ Processed
    /\ result = NoResult
    /\ start_node = 0
    /\ max_depth = 0
    /\ paths = << >>
    /\ profile_sequence \in SeqsUpTo(MatchItems, MaxSeqLen)
    /\ selected_nodes \in SeqsUpTo(MatchItems, MaxPathLen)
    /\ matches = << >>

\* one call of the matcher on the sequence and the selected path
Match ==
    /\ matches = << >>
    /\ matches' = << profile_matches_path(profile_sequence, selected_nodes) >>
    /\ UNCHANGED << recordVars, storeVars, taskVars, searchVars, loadVars, answerVars,
                    profile_sequence, selected_nodes >>

MatchNext == Match

MatchSpec == MatchInit /\ [][MatchNext]_vars

\* sel is an ordered, not necessarily contiguous, subsequence of seq
IsSubsequence(sel, seq) ==
    \E f \in [1..Len(sel) -> 1..Len(seq)] :
        /\ \A i \in 1..Len(sel) : \A j \in 1..Len(sel) : i < j => f[i] < f[j]
        /\ \A i \in 1..Len(sel) : seq[f[i]] = sel[i]

\* C10: the matcher returns true exactly when the query path is an ordered
\* subsequence of the profile sequence under (type, value) equality
C10_ScanIsSubsequenceTest ==
    matches # << >> => (matches[1] <=> IsSubsequence(selected_nodes, profile_sequence))

\* a two-element path matched across a gap in a three-element sequence
C10_Witness ==
    /\ matches = << TRUE >>
    /\ Len(selected_nodes) = 2
    /\ Len(profile_sequence) = 3
    /\ profile_sequence[1] = selected_nodes[1]
    /\ profile_sequence[3] = selected_nodes[2]
    /\ profile_sequence[2] \notin {selected_nodes[1], selected_nodes[2]}

(***************************************************************************)
(* Profiles with other careers than the default one                        *)
(***************************************************************************)
Kinds == {"none", "default", "cmu", "transfer", "mover", "promoted", "joiner"}

\* the education rows of profile p: none; MIT; CMU; or MIT entered first
\* and left last with CMU in between ("transfer")
EducationOf(p, kind) ==
    CASE kind = "none" -> {}
      [] kind = "cmu" ->
            { [id |-> p, profile |-> p, university |-> "CMU",
               start_year |-> p, end_year |-> p + 4] }
      [] kind = "transfer" ->
            DefaultEducation(p) \cup
            { [id |-> p + NumProfiles, profile |-> p, university |-> "CMU",
               start_year |-> p + 1, end_year |-> p + 3] }
      [] OTHER -> DefaultEducation(p)

\* the experience rows of profile p: none; the default one; the default one
\* followed by a second one at Meta ("mover"); the default one followed by a
\* second one at the same company ("promoted"); or the default one preceded
\* by one at Meta ("joiner")
ExperienceOf(p, kind) ==
    CASE kind = "none" -> {}
      [] kind = "mover" ->
            DefaultExperience(p) \cup
            { [id |-> p + NumProfiles, profile |-> p, company |-> "Meta",
               title |-> "EM", start_date |-> p + 6] }
      [] kind = "promoted" ->
            DefaultExperience(p) \cup
            { [id |-> p + NumProfiles, profile |-> p, company |-> "Google",
               title |-> "EM", start_date |-> p + 6] }
      [] kind = "joiner" ->
            DefaultExperience(p) \cup
            { [id |-> p + NumProfiles, profile |-> p, company |-> "Meta",
               title |-> "EM", start_date |-> p + 4] }
      [] OTHER -> DefaultExperience(p)

RecordsOf(kind) ==
    /\ Education = UNION {EducationOf(p, kind[p]) : p \in Profiles}
    /\ Experience = UNION {ExperienceOf(p, kind[p]) : p \in Profiles}

\* any assignment of careers to the profiles, an empty store, no task running
RecordsInit ==
    /\ \E kind \in [Profiles -> Kinds] : RecordsOf(kind)
    /\ PathNode = {}
    /\ PathConnection = {}
    /\ pc = [p \in Profiles |-> "idle"]
    /\ runs = [p \in Profiles |-> 0]
    /\ nodes = [p \in Profiles |-> << >>]
    /\ idx = [p \in Profiles |-> 0]
    /\ connection = [p \in Profiles |-> NoConnection]
    /\ count = [p \in Profiles |-> 0]
    /\ graph = EmptyGraph
    /\ NoQuery

\* the profiles are ingested one after another
CareerSpec == RecordsInit /\ [][SeqNext]_vars

(***************************************************************************)
(* CareerGraphAnalyzer: the graph and _load_graph_data                     *)
(***************************************************************************)

\* f with f[k] = v, the domain extended by k if need be
Put(f, k, v) == [x \in (DOMAIN f) \cup {k} |-> IF x = k THEN v ELSE f[x]]

\* self.graph.add_node(node.id, type=..., value=..., profiles_count=...)
add_node(g, node) ==
    [ nodes |-> g.nodes \cup {node.id},
      succ  |-> IF node.id \in g.nodes THEN g.succ ELSE Put(g.succ, node.id, << >>),
      attr  |-> Put(g.attr, node.id, [type |-> node.type, value |-> node.value,
                                      profiles_count |-> node.profiles_count]),
      edge  |-> g.edge ]

\* self.graph.add_edge(u, v, weight=..., profiles=...): an endpoint that is
\* not in the graph yet is added without attributes
add_edge(g, u, v, data) ==
    LET succ == [x \in g.nodes \cup {u, v} |-> IF x \in g.nodes THEN g.succ[x] ELSE << >>]
    IN  [ nodes |-> g.nodes \cup {u, v},
          succ  |-> [succ EXCEPT ![u] = IF v \in Range(@) THEN @ ELSE Append(@, v)],
          attr  |-> g.attr,
          edge  |-> Put(g.edge, << u, v >>, data) ]

\* for node in PathNode.objects.all(): self.graph.add_node(...)
RECURSIVE add_nodes(_, _)
add_nodes(g, rows) ==
    IF rows = << >> THEN g ELSE add_nodes(add_node(g, Head(rows)), Tail(rows))

\* rows in primary-key order, the order an unordered query returns them in
ById == << "id" >>

\* a count that grows with every load that was logged before
number_of_nodes_Cumulative(g) == Cardinality(g.nodes) + Len(load_log)

\* self.graph.number_of_nodes(), self.graph.number_of_edges()
number_of_nodes(g) == Cardinality(g.nodes)
number_of_edges(g) == Cardinality(DOMAIN g.edge)

Loading == loader.pc \in {"nodes", "connections", "edges"}

\* a new call on the analyzer begins: the arguments, locals and return value
\* of the call before are gone
NewCall ==
    /\ selected_nodes' = << >>
    /\ limit' = 0
    /\ start_node' = 0
    /\ max_depth' = 0
    /\ paths' = << >>
    /\ result' = NoResult

\* CareerGraphAnalyzer(): self.graph = nx.DiGraph(), then _load_graph_data()
\* is entered; nothing has been returned yet
Construct ==
    /\ loader.pc = "none"
    /\ loader.calls < MaxLoads
    /\ graph' = EmptyGraph
    /\ loader' = [pc |-> "nodes", init |-> TRUE, todo |-> << >>, calls |-> loader.calls + 1]
    /\ NewCall
    /\ UNCHANGED << recordVars, storeVars, taskVars, load_log, profile_sequence, matches >>

\* analyzer.reload_graph(): _load_graph_data() is entered and clears the
\* graph; the caller is done with what the call before returned
Reload ==
    /\ loader.pc \in {"ready", "raised"}
    /\ loader.calls < MaxLoads
    /\ graph' = EmptyGraph
    /\ loader' = [pc |-> "nodes", init |-> FALSE, todo |-> << >>, calls |-> loader.calls + 1]
    /\ NewCall
    /\ UNCHANGED << recordVars, storeVars, taskVars, load_log, profile_sequence, matches >>

\* the loop over PathNode.objects.all()
LoadNodes ==
    /\ loader.pc = "nodes"
    /\ graph' = add_nodes(graph, OrderBy(PathNode, ById))
    /\ loader' = [loader EXCEPT !.pc = "connections"]
    /\ UNCHANGED << recordVars, storeVars, taskVars, load_log, answerVars,
                    start_node, max_depth, paths, matchVars >>

\* the query behind the loop over PathConnection.objects.all()
LoadConnections ==
    /\ loader.pc = "connections"
    /\ loader' = [loader EXCEPT !.pc = "edges",
                                !.todo = [i \in 1..Cardinality(PathConnection) |->
                                             LET c == OrderBy(PathConnection, ById)[i]
                                             IN  [id |-> c.id, from_node |-> c.from_node,
                                                  to_node |-> c.to_node, weight |-> c.weight]]]
    /\ UNCHANGED << recordVars, storeVars, taskVars, graph, load_log, answerVars,
                    start_node, max_depth, paths, matchVars >>

\* one round of that loop: the members of the connection are read now
\* (connection.profiles.values_list('id', flat=True)), then add_edge
LoadEdge ==
    /\ loader.pc = "edges"
    /\ loader.todo # << >>
    /\ LET c == Head(loader.todo)
           members == UNION {d.profiles : d \in {e \in PathConnection : e.id = c.id}}
       IN  graph' = add_edge(graph, c.from_node, c.to_node,
                             [weight |-> c.weight, profiles |-> Ascending(members)])
    /\ loader' = [loader EXCEPT !.todo = Tail(@)]
    /\ UNCHANGED << recordVars, storeVars, taskVars, load_log, answerVars,
                    start_node, max_depth, paths, matchVars >>

\* the loop is over: logger.info("Loaded graph with ... nodes and ... edges")
LoadReturn ==
    /\ loader.pc = "edges"
    /\ loader.todo = << >>
    /\ load_log' = Append(load_log, [nodes |-> number_of_nodes(graph),
                                     edges |-> number_of_edges(graph)])
    /\ loader' = [loader EXCEPT !.pc = "ready"]
    /\ UNCHANGED << recordVars, storeVars, taskVars, graph, answerVars,
                    start_node, max_depth, paths, matchVars >>

\* a read of the store raises inside _load_graph_data: the exception leaves
\* the method. Out of the constructor no analyzer object comes into being;
\* out of reload_graph the caller keeps the object with the graph as it is.
LoadFail ==
    /\ Loading
    /\ IF loader.init
       THEN /\ graph' = EmptyGraph
            /\ loader' = [loader EXCEPT !.pc = "none", !.init = FALSE, !.todo = << >>]
       ELSE /\ graph' = graph
            /\ loader' = [loader EXCEPT !.pc = "raised", !.todo = << >>]
    /\ UNCHANGED << recordVars, storeVars, taskVars, load_log, answerVars,
                    start_node, max_depth, paths, matchVars >>

Load == Construct \/ Reload \/ LoadNodes \/ LoadConnections \/ LoadEdge \/ LoadReturn

(***************************************************************************)
(* An analyzer next to the ingests: on the store an earlier ingest of      *)
(* profile 3 left behind, further profiles are ingested one after another  *)
(* while an analyzer is constructed and reloaded, step by step, at any     *)
(* moment                                                                  *)
(***************************************************************************)
LoadStart(p) == Quiescent /\ StartWithin(p, MaxIngests - 1)

LoadNext ==
    \/ \E p \in Profiles : LoadStart(p) \/ Step(p)
    \/ Load
    \/ LoadFail

LoadSpec == WarmInit /\ [][LoadNext]_vars

(***************************************************************************)
(* CareerGraphAnalyzer: the queries                                        *)
(***************************************************************************)

\* seq[:n]
Take(seq, n) == SubSeq(seq, 1, IF n < Len(seq) THEN n ELSE Len(seq))

\* a descending sort that puts equal keys in reverse order
sort_desc_TiesReversed(seq, key) ==
    LET before == [i \in 1..Len(seq) |->
                      Cardinality({j \in 1..Len(seq) :
                                      \/ seq[j][key] > seq[i][key]
                                      \/ seq[j][key] = seq[i][key] /\ j > i})]
    IN  [k \in 1..Len(seq) |-> seq[CHOOSE i \in 1..Len(seq) : before[i] = k - 1]]

\* list.sort(key=lambda x: x[key], reverse=True): descending, equal keys keep their order
sort_desc(seq, key) ==
    LET before == [i \in 1..Len(seq) |->
                      Cardinality({j \in 1..Len(seq) :
                                      \/ seq[j][key] > seq[i][key]
                                      \/ seq[j][key] = seq[i][key] /\ j < i})]
    IN  [k \in 1..Len(seq) |-> seq[CHOOSE i \in 1..Len(seq) : before[i] = k - 1]]

\* what a lookup that ran into a node without attributes raises
KeyError == -1

\* _find_node_id: the first node with that type and value, None (NULL) if
\* the loop ends without one; data['type'] raises on a node without
\* attributes, and those come last in the graph
find_node_id(node_type, node_value) ==
    LET found == {n \in DOMAIN graph.attr : /\ graph.attr[n].type = node_type
                                            /\ graph.attr[n].value = node_value}
    IN  IF found # {} THEN CHOOSE n \in found : \A m \in found : n <= m
        ELSE IF graph.nodes \ DOMAIN graph.attr # {} THEN KeyError
        ELSE NULL

\* the career sequence _profile_matches_path reconstructs: universities by
\* end_year, then company and title of each experience by start_date
career_sequence(p) ==
    LET edus == OrderBy(educations(p), ByEndYear)
        exps == OrderBy(experiences(p), ByStartDate)
    IN  [i \in 1..Len(edus) |-> [type |-> "university", value |-> edus[i].university]]
        \o [i \in 1..(2 * Len(exps)) |->
               IF i % 2 = 1
               THEN [type |-> "company", value |-> exps[(i + 1) \div 2].company]
               ELSE [type |-> "title", value |-> exps[i \div 2].title]]

RECURSIVE filter_profiles_by_path(_, _)

\* a filter that lets every member through
filter_profiles_by_path_Unfiltered(profile_ids, sel) == profile_ids

\* _filter_profiles_by_path: the ids whose profile exists and matches
filter_profiles_by_path(profile_ids, sel) ==
    IF sel = << >> \/ profile_ids = << >> THEN profile_ids
    ELSE (IF /\ Head(profile_ids) \in Profiles
             /\ profile_matches_path(career_sequence(Head(profile_ids)), sel)
          THEN << Head(profile_ids) >> ELSE << >>)
             \o filter_profiles_by_path(Tail(profile_ids), sel)

\* an empty answer that does not say what went wrong
ErrorResult_EmptySuccess(op, error) == [op |-> op, error |-> "", items |-> << >>, total |-> 0]

\* return {'error': ...}
ErrorResult(op, error) == [op |-> op, error |-> error, items |-> << >>, total |-> 0]

\* the rounds of the loop over self.graph.successors(last_node_id) that
\* append an entry
RECURSIVE next_steps(_, _, _)
next_steps(last_node_id, succs, sel) ==
    IF succs = << >> THEN << >>
    ELSE LET successor == Head(succs)
             edge_data == graph.edge[<< last_node_id, successor >>]
             matching_profiles == filter_profiles_by_path(edge_data.profiles, sel)
         IN  (IF matching_profiles # << >>
              THEN << [node |-> successor,
                       profiles_count |-> Len(matching_profiles),
                       total_weight |-> edge_data.weight,
                       matching_profiles |-> Take(matching_profiles, 10)] >>
              ELSE << >>)
                 \o next_steps(last_node_id, Tail(succs), sel)

profiles_count_key == "profiles_count"

\* find_next_steps past the test for an empty path: resolve the last
\* element, walk its successors, sort, cut
next_steps_from_last(sel) ==
    LET last_node_id == find_node_id(sel[Len(sel)].type, sel[Len(sel)].value)
    IN  IF last_node_id = KeyError THEN ErrorResult("next_steps", "exception")
        ELSE IF last_node_id = NULL THEN ErrorResult("next_steps", "Node not found")
        ELSE LET steps == next_steps(last_node_id, graph.succ[last_node_id], sel)
             IN  IF \E i \in 1..Len(steps) : steps[i].node \notin DOMAIN graph.attr
                 THEN \* node_data['type'] raises; caught by `except Exception`
                      ErrorResult("next_steps", "exception")
                 ELSE [ op |-> "next_steps",
                        error |-> "",
                        items |-> Take(sort_desc(
                            [i \in 1..Len(steps) |->
                                [type |-> graph.attr[steps[i].node].type,
                                 value |-> graph.attr[steps[i].node].value,
                                 profiles_count |-> steps[i].profiles_count,
                                 total_weight |-> steps[i].total_weight,
                                 matching_profiles |-> steps[i].matching_profiles]],
                            profiles_count_key), 20),
                        total |-> 0 ]

\* without the test for an empty path, selected_nodes[-1] raises
find_next_steps_NoEmptyTest(sel) ==
    IF sel = << >> THEN ErrorResult("next_steps", "exception")
    ELSE next_steps_from_last(sel)

\* find_next_steps(selected_nodes)
find_next_steps(sel) ==
    IF sel = << >> THEN ErrorResult("next_steps", "No nodes selected")
    ELSE next_steps_from_last(sel)

\* one call of find_next_steps on the analyzer
FindNextSteps(sel) ==
    /\ loader.pc \in {"ready", "raised"}
    /\ selected_nodes' = sel
    /\ result' = find_next_steps(sel)
    /\ UNCHANGED << recordVars, storeVars, taskVars, searchVars, loadVars, limit,
                    profile_sequence, matches >>

\* min(min_weight, edge_data['weight']) over the edges of the path
RECURSIVE min_weight(_, _)

\* the weight of the first edge instead of the minimum
min_weight_FirstEdge(path, i) == graph.edge[<< path[i], path[i + 1] >>].weight

min_weight(path, i) ==
    LET w == graph.edge[<< path[i], path[i + 1] >>].weight
    IN  IF i = Len(path) - 1 THEN w
        ELSE LET rest == min_weight(path, i + 1)
             IN  IF w < rest THEN w ELSE rest

\* sum of the weights of the edges of the path
RECURSIVE total_weight(_, _)
total_weight(path, i) ==
    IF i > Len(path) - 1 THEN 0
    ELSE graph.edge[<< path[i], path[i + 1] >>].weight + total_weight(path, i + 1)

\* _calculate_path_strength: (total_weight / total_connections) / len(path),
\* kept as the fraction << numerator, denominator >>
calculate_path_strength(path) ==
    << total_weight(path, 1), (Len(path) - 1) * Len(path) >>

\* _analyze_path: << info >>, or << >> for None (a missing edge; a KeyError
\* on a node without attributes, caught inside)
analyze_path(path) ==
    IF Len(path) < 2 THEN << >>
    ELSE IF \E i \in 1..(Len(path) - 1) : << path[i], path[i + 1] >> \notin DOMAIN graph.edge
    THEN << >>
    ELSE IF \E i \in 1..Len(path) : path[i] \notin DOMAIN graph.attr
    THEN << >>
    ELSE << [ steps |-> [i \in 1..(Len(path) - 1) |->
                            [from |-> [type |-> graph.attr[path[i]].type,
                                       value |-> graph.attr[path[i]].value],
                             to |-> [type |-> graph.attr[path[i + 1]].type,
                                     value |-> graph.attr[path[i + 1]].value],
                             weight |-> graph.edge[<< path[i], path[i + 1] >>].weight,
                             profiles_count |->
                                 Len(graph.edge[<< path[i], path[i + 1] >>].profiles)]],
              total_profiles |-> min_weight(path, 1),
              path_length |-> Len(path),
              strength_score |-> calculate_path_strength(path) ] >>

\* for path in ...: path_info = self._analyze_path(path); if path_info: append
RECURSIVE analyze_paths(_)
analyze_paths(candidates) ==
    IF candidates = << >> THEN << >>
    ELSE analyze_path(Head(candidates)) \o analyze_paths(Tail(candidates))

total_profiles_key == "total_profiles"

\* the ids the list comprehension over self.graph.nodes(data=True) keeps
university_nodes(university_name) ==
    {n \in DOMAIN graph.attr : /\ graph.attr[n].type = "university"
                               /\ graph.attr[n].value = university_name}

\* university_nodes[0], the first in the order the nodes were loaded in
university_node(university_name) ==
    IF university_nodes(university_name) = {} THEN 0
    ELSE CHOOSE n \in university_nodes(university_name) :
             \A m \in university_nodes(university_name) : n <= m

\* find_career_paths_from_university(university_name, max_depth)
find_career_paths_from_university(university_name, d) ==
    IF graph.nodes \ DOMAIN graph.attr # {}
    THEN \* data['type'] raises; caught by `except Exception`
         ErrorResult("career_paths", "exception")
    ELSE IF university_nodes(university_name) = {}
    THEN ErrorResult("career_paths", "University not found")
    ELSE LET infos == analyze_paths(
                          dfs_paths_from_node(university_node(university_name), d))
         IN  [ op |-> "career_paths",
               error |-> "",
               items |-> Take(sort_desc(infos, total_profiles_key), 50),
               total |-> Len(infos) ]

\* one call of find_career_paths_from_university on the analyzer
FindCareerPaths(university_name, d) ==
    /\ loader.pc \in {"ready", "raised"}
    /\ selected_nodes' = << [type |-> "university", value |-> university_name] >>
    /\ max_depth' = d
    /\ start_node' = IF graph.nodes \ DOMAIN graph.attr # {} THEN 0
                     ELSE university_node(university_name)
    /\ paths' = IF start_node' = 0 THEN << >> ELSE dfs_paths_from_node(start_node', d)
    /\ result' = find_career_paths_from_university(university_name, d)
    /\ UNCHANGED << recordVars, storeVars, taskVars, graph, loadVars, limit,
                    profile_sequence, matches >>

\* a lookup that knows universities only
node_profiles_UniversityOnly(node) ==
    CASE node.type = "university" ->
            {p \in Profiles : \E e \in Education : e.profile = p /\ e.university = node.value}
      [] OTHER -> {}

\* the profiles that have the element: an education at the university, an
\* experience at the company, an experience with the title
node_profiles(node) ==
    CASE node.type = "university" ->
            {p \in Profiles : \E e \in Education : e.profile = p /\ e.university = node.value}
      [] node.type = "company" ->
            {p \in Profiles : \E e \in Experience : e.profile = p /\ e.company = node.value}
      [] node.type = "title" ->
            {p \in Profiles : \E e \in Experience : e.profile = p /\ e.title = node.value}
      [] OTHER -> {}

RECURSIVE matching_profiles(_, _, _)

\* a loop that joins the sets instead of intersecting them
matching_profiles_Union(sel, i, matching) ==
    IF i > Len(sel) THEN matching
    ELSE matching_profiles(sel, i + 1, matching \cup node_profiles(sel[i]))

\* the loop of _find_profiles_matching_path from element i on:
\* matching_profiles = matching_profiles.intersection(node_profiles)
matching_profiles(sel, i, matching) ==
    IF i > Len(sel) THEN matching
    ELSE matching_profiles(sel, i + 1, matching \cap node_profiles(sel[i]))

\* _find_profiles_matching_path: list(matching_profiles)
find_profiles_matching_path(sel) ==
    IF sel = << >> THEN << >>
    ELSE Ascending(matching_profiles(sel, 1, Profiles))

\* get_profiles_for_path(selected_nodes, limit): the profiles with an id in
\* matching_profiles[:limit] (limit = n), and total_matches = len(matching_profiles)
get_profiles_for_path(sel, n) ==
    IF sel = << >> THEN [op |-> "profiles", error |-> "", items |-> << >>, total |-> 0]
    ELSE LET matching == find_profiles_matching_path(sel)
         IN  [ op |-> "profiles",
               error |-> "",
               items |-> Ascending({p \in Profiles : p \in Range(Take(matching, n))}),
               total |-> Len(matching) ]

\* one call of get_profiles_for_path on the analyzer
GetProfilesForPath(sel, n) ==
    /\ loader.pc \in {"ready", "raised"}
    /\ selected_nodes' = sel
    /\ limit' = n
    /\ result' = get_profiles_for_path(sel, n)
    /\ UNCHANGED << recordVars, storeVars, taskVars, searchVars, loadVars,
                    profile_sequence, matches >>

(***************************************************************************)
(* An analyzer over the store three ingests left behind: profile 1 (MIT,   *)
(* Google, SWE), then profile 2 (CMU, Google, PM), then profile 3 (MIT,    *)
(* Google, blank title). No task runs; the analyzer is constructed,        *)
(* reloaded and queried, and any read of the store may raise.              *)
(***************************************************************************)
QueryKind == [p \in Profiles |-> IF p = 2 THEN "cmu" ELSE "default"]

IngestedStore ==
    /\ PathNode =
         { [id |-> 1, type |-> "university", value |-> "MIT", profiles_count |-> 2],
           [id |-> 2, type |-> "company", value |-> "Google", profiles_count |-> 2],
           [id |-> 3, type |-> "title", value |-> "SWE", profiles_count |-> 0],
           [id |-> 4, type |-> "university", value |-> "CMU", profiles_count |-> 1],
           [id |-> 5, type |-> "title", value |-> "PM", profiles_count |-> 0] }
    /\ PathConnection =
         { [id |-> 1, from_node |-> 1, to_node |-> 2, weight |-> 2, profiles |-> {1, 3}],
           [id |-> 2, from_node |-> 2, to_node |-> 3, weight |-> 1, profiles |-> {1}],
           [id |-> 3, from_node |-> 4, to_node |-> 2, weight |-> 1, profiles |-> {2}],
           [id |-> 4, from_node |-> 2, to_node |-> 5, weight |-> 1, profiles |-> {2}] }

Ingested == [p \in Profiles |-> p \in 1..3]

QueryInit ==
    /\ RecordsOf(QueryKind)
    /\ IngestedStore
    /\ pc = [p \in Profiles |-> IF Ingested[p] THEN "done" ELSE "idle"]
    /\ runs = [p \in Profiles |-> IF Ingested[p] THEN 1 ELSE 0]
    /\ nodes = [p \in Profiles |-> << >>]
    /\ idx = [p \in Profiles |-> 0]
    /\ connection = [p \in Profiles |-> NoConnection]
    /\ count = [p \in Profiles |-> 0]
    /\ graph = EmptyGraph
    /\ NoQuery

\* the store of QueryInit is the one CareerSpec reaches by these ingests
IngestedStoreAfterIngests ==
    /\ RecordsOf(QueryKind)
    /\ IngestedStore
    /\ \A p \in Profiles : pc[p] = (IF Ingested[p] THEN "done" ELSE "idle")
    /\ \A p \in Profiles : runs[p] = (IF Ingested[p] THEN 1 ELSE 0)

\* the elements queries are made of; no profile went to "Unknown U"
QueryItems ==
    { [type |-> "university", value |-> "MIT"],
      [type |-> "university", value |-> "CMU"],
      [type |-> "university", value |-> "Unknown U"],
      [type |-> "company", value |-> "Google"],
      [type |-> "company", value |-> "Meta"],
      [type |-> "title", value |-> "SWE"],
      [type |-> "title", value |-> "PM"] }

\* a query changes nothing but what it returns, so one query is made on
\* each graph the analyzer gets to hold
Unasked == result = NoResult

QueryNext ==
    \/ Load
    \/ LoadFail
    \/ Unasked /\ \E sel \in SeqsUpTo(QueryItems, MaxSelected) : FindNextSteps(sel)
    \/ Unasked /\ \E u \in {"MIT", "CMU", "Unknown U"} : \E d \in 1..MaxSearchDepth :
                      FindCareerPaths(u, d)

QuerySpec == QueryInit /\ [][QueryNext]_vars

(***************************************************************************)
(* get_profiles_for_path over any assignment of careers: the store is      *)
(* empty and the analyzer was constructed on it                            *)
(***************************************************************************)
\* the careers that differ in what the profile lookups and the matcher see
ProfileKinds == {"default", "cmu", "mover", "joiner"}

ProfileInit ==
    /\ \E kind \in [Profiles -> ProfileKinds] : RecordsOf(kind)
    /\ PathNode = {}
    /\ PathConnection = {}
    /\ pc = [p \in Profiles |-> "idle"]
    /\ runs = [p \in Profiles |-> 0]
    /\ nodes = [p \in Profiles |-> << >>]
    /\ idx = [p \in Profiles |-> 0]
    /\ connection = [p \in Profiles |-> NoConnection]
    /\ count = [p \in Profiles |-> 0]
    /\ graph = EmptyGraph
    /\ loader = [pc |-> "ready", init |-> TRUE, todo |-> << >>, calls |-> 1]
    /\ load_log = << [nodes |-> 0, edges |-> 0] >>
    /\ limit = 0
    /\ Processed
    /\ result = NoResult
    /\ start_node = 0
    /\ max_depth = 0
    /\ paths = << >>
    /\ profile_sequence = << >>
    /\ selected_nodes = << >>
    /\ matches = << >>

ProfileNext ==
    Unasked /\ \E sel \in SeqsUpTo(QueryItems, MaxSelected) : \E n \in 1..NumProfiles :
                   GetProfilesForPath(sel, n)

ProfileSpec == ProfileInit /\ [][ProfileNext]_vars

(***************************************************************************)
(* Properties of the queries                                               *)
(***************************************************************************)

\* the nodes of the snapshot the last element of the selected path names
Resolved ==
    IF selected_nodes = << >> THEN {}
    ELSE {n \in DOMAIN graph.attr :
              /\ graph.attr[n].type = selected_nodes[Len(selected_nodes)].type
              /\ graph.attr[n].value = selected_nodes[Len(selected_nodes)].value}

\* the members of edge L -> S whose career sequence contains the whole
\* selected path as an ordered subsequence
QualifyingMembers(L, S) ==
    {p \in Range(graph.edge[<< L, S >>].profiles) :
         IsSubsequence(selected_nodes, career_sequence(p))}

\* the entries of the answer that describe node S
EntriesFor(S) ==
    {i \in DOMAIN result.items : /\ result.items[i].type = graph.attr[S].type
                                 /\ result.items[i].value = graph.attr[S].value}

\* C11: for a non-empty selected path whose last element resolves to node L,
\* find_next_steps answers with exactly one entry per successor S of L that
\* has a member of edge L -> S matching the whole path, the entry's
\* profiles_count is the number of those members, and a successor without
\* such a member has no entry
C11_OneEntryPerQualifyingSuccessor ==
    result.op = "next_steps"
        => \A L \in Resolved :
               /\ result.error = ""
               /\ \A S \in Range(graph.succ[L]) :
                      IF QualifyingMembers(L, S) = {}
                      THEN EntriesFor(S) = {}
                      ELSE /\ Cardinality(EntriesFor(S)) = 1
                           /\ \A i \in EntriesFor(S) :
                                  result.items[i].profiles_count =
                                      Cardinality(QualifyingMembers(L, S))
               /\ \A i \in DOMAIN result.items :
                      \E S \in Range(graph.succ[L]) : i \in EntriesFor(S)

\* a two-element path was answered with a successor whose edge has a
\* matching member, while another successor was left out although its edge
\* has members: none of them matches the whole path
C11_Witness ==
    /\ result.op = "next_steps"
    /\ Len(selected_nodes) = 2
    /\ \E L \in Resolved : \E S \in Range(graph.succ[L]) : \E T \in Range(graph.succ[L]) :
           /\ QualifyingMembers(L, S) # {}
           /\ EntriesFor(S) # {}
           /\ graph.edge[<< L, T >>].profiles # << >>
           /\ QualifyingMembers(L, T) = {}
           /\ EntriesFor(T) = {}

\* profile p has the element: an education at that university, an
\* experience at that company, or an experience with that title
HasElement(p, node) ==
    \/ node.type = "university" /\ \E e \in educations(p) : e.university = node.value
    \/ node.type = "company" /\ \E e \in experiences(p) : e.company = node.value
    \/ node.type = "title" /\ \E e \in experiences(p) : e.title = node.value

\* the profiles that have every element of the selected path
HavingAll == {p \in Profiles : \A i \in DOMAIN selected_nodes : HasElement(p, selected_nodes[i])}

\* C12: for a non-empty selected path get_profiles_for_path reports as total
\* the number of profiles that have every element of the path and returns
\* at most `limit` of exactly those profiles (all of them when the limit
\* allows), so a path with an element no profile has yields total 0 and no
\* profiles
C12_ProfilesForPathIsIntersection ==
    (result.op = "profiles" /\ selected_nodes # << >>)
        => /\ result.error = ""
           /\ result.total = Cardinality(HavingAll)
           /\ Len(result.items) <= limit
           /\ Range(result.items) \subseteq HavingAll
           /\ Cardinality(Range(result.items)) = Len(result.items)
           /\ limit >= Cardinality(HavingAll) => Range(result.items) = HavingAll
           /\ (\E i \in DOMAIN selected_nodes : \A p \in Profiles :
                   ~HasElement(p, selected_nodes[i]))
                  => result.total = 0 /\ result.items = << >>

\* a two-element path matched more profiles than the limit lets through,
\* and some profile has the first element without the second
C12_Witness ==
    /\ result.op = "profiles"
    /\ Len(selected_nodes) = 2
    /\ result.total > limit
    /\ Len(result.items) = limit
    /\ \E p \in Profiles : /\ HasElement(p, selected_nodes[1])
                           /\ ~HasElement(p, selected_nodes[2])

\* C13: find_next_steps called with an empty selected path returns the
\* error result "No nodes selected" and no next steps, whatever graph the
\* analyzer holds
C13_EmptyPathIsRejected ==
    (result.op = "next_steps" /\ selected_nodes = << >>)
        => result.error = "No nodes selected" /\ result.items = << >>

\* the empty path was rejected as such on a graph a failed reload left
\* without any node, where a lookup of any element would find nothing
C13_Witness ==
    /\ result.op = "next_steps"
    /\ selected_nodes = << >>
    /\ result.error = "No nodes selected"
    /\ loader.pc = "raised"
    /\ graph.nodes = {}

\* no node of graph g has the type and value of the last element of sel
Unknown(g, sel) ==
    /\ sel # << >>
    /\ ~\E n \in DOMAIN g.attr : /\ g.attr[n].type = sel[Len(sel)].type
                                 /\ g.attr[n].value = sel[Len(sel)].value

\* C14: when no node of the snapshot has the requested type and value, the
\* path search (for its start university) and find_next_steps (for the last
\* element of its selected path) return a not-found error result and no
\* items; neither query changes the snapshot
C14_UnknownNodeIsNotFound ==
    [][(result' # result /\ result'.op \in {"next_steps", "career_paths"})
          => /\ graph' = graph
             /\ Unknown(graph, selected_nodes')
                    => /\ result'.items = << >>
                       /\ result'.error = (IF result'.op = "next_steps"
                                           THEN "Node not found"
                                           ELSE "University not found")]_vars

\* on a fully loaded snapshot a two-element path whose first element is a
\* node and whose last element is not was answered with "Node not found"
C14_Witness ==
    /\ loader.pc = "ready"
    /\ result.op = "next_steps"
    /\ result.error = "Node not found"
    /\ Len(selected_nodes) = 2
    /\ Unknown(graph, selected_nodes)
    /\ ~Unknown(graph, << selected_nodes[1] >>)

(***************************************************************************)
(* Properties of the load                                                  *)
(***************************************************************************)

\* the graph holds every node and every edge of the store
HoldsWholeStore ==
    /\ graph.nodes = {n.id : n \in PathNode}
    /\ DOMAIN graph.edge = {<< c.from_node, c.to_node >> : c \in PathConnection}

\* C15: on a store that does not change, a reload in which a read of the
\* store raises leaves the analyzer with the snapshot it held before, so
\* whenever the analyzer is not inside a load its graph holds the whole
\* store and never a part of it
C15_FailedReloadKeepsSnapshot ==
    loader.pc \in {"ready", "raised"} => HoldsWholeStore

\* C16: every step of an ingest leaves the graph of the analyzer as it is,
\* and the graph changes only in steps of a load
C16_IngestLeavesGraphAlone ==
    [][/\ (PathNode' # PathNode \/ PathConnection' # PathConnection \/ pc' # pc)
           => graph' = graph
       /\ graph' # graph => loader' # loader]_vars

\* a loaded analyzer holds nodes and edges, and the store has since got a
\* node and an edge the graph does not have
C16_Witness ==
    /\ loader.pc = "ready"
    /\ graph.nodes # {}
    /\ DOMAIN graph.edge # {}
    /\ \E n \in PathNode : n.id \notin graph.nodes
    /\ \E c \in PathConnection : << c.from_node, c.to_node >> \notin DOMAIN graph.edge

C18_EmptySequenceIsAnError ==
    \A p \in Profiles :
        (runs[p] > 0 /\ ~Active(p) /\ HasCareerPath(p)
             /\ NodeItems(CareerPathOf(p)) = << >>)
            => /\ pc[p] = "failed"
               /\ TotalRuns = 1 => (PathNode = {} /\ PathConnection = {})

(***************************************************************************)
(* Properties of the path search against the simple paths of the graph     *)
(***************************************************************************)
\* the sequences of k + 1 distinct nodes of g that begin at start and follow
\* an edge of g at every step
SimplePaths(g, start, k) ==
    {path \in [1..(k + 1) -> g.nodes] :
        /\ path[1] = start
        /\ \A i \in 1..(k + 1) : \A j \in 1..(k + 1) : i # j => path[i] # path[j]
        /\ \A i \in 1..k : path[i + 1] \in Range(g.succ[path[i]])}

\* C19: every simple path that begins at the start node and has k edges,
\* 1 <= k <= max_depth, is among the paths the search returned
C19_EnumerationIsComplete ==
    start_node # 0 =>
        \A k \in 1..max_depth :
            k < Cardinality(graph.nodes) =>
                SimplePaths(graph, start_node, k) \subseteq Range(paths)

(***************************************************************************)
(* The sequence the ingest builds edges from against the sequence the      *)
(* matcher tests                                                           *)
(***************************************************************************)
\* some connection between the nodes of items a and b has p as a member
MemberBetween(p, a, b) == \E c \in ConnsBetween(a, b) : p \in c.profiles

\* C20: for every ingested profile the pairs update_career_graph got or
\* created, in order, are the sequence _profile_matches_path tests, and every
\* consecutive pair of that sequence has an edge with the profile as a member
C20_BuilderAndMatcherAgree ==
    \A p \in Profiles :
        (pc[p] = "done" /\ runs[p] > 0) =>
            LET seq == career_sequence(p)
            IN  /\ NodeItems(CareerPathOf(p)) = seq
                /\ \A i \in 1..(Len(seq) - 1) : MemberBetween(p, seq[i], seq[i + 1])

(***************************************************************************)
(* Self-loops in the store                                                 *)
(***************************************************************************)
\* C21: no edge of the store has its from-node equal to its to-node
C21_NoSelfLoop == \A c \in PathConnection : c.from_node # c.to_node

(***************************************************************************)
(* Properties of the answers of find_career_paths_from_university          *)
(***************************************************************************)
\* the nodes of the snapshot with the type and value of an item
NodesNamed(item) ==
    {n \in DOMAIN graph.attr : /\ graph.attr[n].type = item.type
                               /\ graph.attr[n].value = item.value}

\* the weights the snapshot holds for the edges the steps of a returned path
\* describe
WeightsAlong(info) ==
    {graph.edge[e].weight :
        e \in {d \in DOMAIN graph.edge :
                  \E i \in DOMAIN info.steps : /\ d[1] \in NodesNamed(info.steps[i].from)
                                               /\ d[2] \in NodesNamed(info.steps[i].to)}}

\* C22: the total_profiles of every returned path is the minimum of the
\* weights of the edges along the path in the snapshot
C22_TotalProfilesIsMinWeight ==
    result.op = "career_paths"
        => \A i \in DOMAIN result.items :
               /\ result.items[i].total_profiles \in WeightsAlong(result.items[i])
               /\ \A w \in WeightsAlong(result.items[i]) :
                      result.items[i].total_profiles <= w

\* a returned path of two edges whose first edge is heavier than its second
C22_Witness ==
    /\ result.op = "career_paths"
    /\ \E i \in DOMAIN result.items :
           /\ Len(result.items[i].steps) = 2
           /\ result.items[i].steps[1].weight > result.items[i].steps[2].weight
           /\ result.items[i].total_profiles = result.items[i].steps[2].weight

(***************************************************************************)
(* Queries on a dense store: one university whose graduates went to every  *)
(* company, and moves between the companies in both directions. Over the   *)
(* years profiles were re-ingested with changed records, which left an     *)
(* edge for every move anyone ever made.                                   *)
(***************************************************************************)
DenseIds == 1..DenseNodes

DenseNames == << "MIT", "Google", "Meta", "Apple", "Amazon", "Netflix", "Stripe", "Uber" >>

\* moves between companies that may be missing from the store
RareMoves == { << 2, 3 >>, << 5, 4 >> }

\* university -> company and company -> company, without the absent moves
DenseEdges(absent) ==
    {d \in DenseIds \X (DenseIds \ {1}) : d[1] # d[2]} \ absent

\* rows get their ids in the order they were created in
DenseRank(edges, d) ==
    Cardinality({e \in edges : \/ e[1] < d[1]
                               \/ e[1] = d[1] /\ e[2] <= d[2]})

DenseStore(absent, x) ==
    /\ PathNode =
         { [id |-> n, type |-> IF n = 1 THEN "university" ELSE "company",
            value |-> DenseNames[n], profiles_count |-> 1] : n \in DenseIds }
    /\ PathConnection =
         { [id |-> DenseRank(DenseEdges(absent), d), from_node |-> d[1], to_node |-> d[2],
            weight |-> 1 + ((d[1] + 2 * d[2] + x) % MaxWeight),
            profiles |-> {1}] : d \in DenseEdges(absent) }

DenseInit ==
    /\ DefaultRecords
    /\ \E absent \in SUBSET RareMoves : \E x \in 0..(MaxWeight - 1) : DenseStore(absent, x)
    /\ pc = [p \in Profiles |-> "idle"]
    /\ runs = [p \in Profiles |-> 0]
    /\ nodes = [p \in Profiles |-> << >>]
    /\ idx = [p \in Profiles |-> 0]
    /\ connection = [p \in Profiles |-> NoConnection]
    /\ count = [p \in Profiles |-> 0]
    /\ graph = EmptyGraph
    /\ NoQuery

\* the analyzer is constructed and asked for the career paths from the
\* university with any max_depth up to the serializer's default
DenseNext ==
    \/ Construct
    \/ LoadNodes
    \/ LoadConnections
    \/ LoadEdge
    \/ LoadReturn
    \/ Unasked /\ \E d \in 1..DefaultMaxDepth : FindCareerPaths("MIT", d)

DenseSpec == DenseInit /\ [][DenseNext]_vars

(***************************************************************************)
(* Order and number of the returned career paths                           *)
(***************************************************************************)
\* the (type, value) items of the nodes of a path of the snapshot
NamesOf(path) ==
    [k \in 1..Len(path) |-> [type |-> graph.attr[path[k]].type,
                             value |-> graph.attr[path[k]].value]]

\* the items a returned path goes through, read off its steps
PathOfItem(info) ==
    << info.steps[1].from >> \o [k \in 1..Len(info.steps) |-> info.steps[k].to]

\* the positions in the depth-first discovery order of the candidates a
\* returned path describes
Discovery(info) ==
    LET items == PathOfItem(info)
    IN  {j \in DOMAIN paths : NamesOf(paths[j]) = items}

\* the smallest weight of the snapshot along a candidate
Bottleneck(path) ==
    LET W == {graph.edge[<< path[k], path[k + 1] >>].weight : k \in 1..(Len(path) - 1)}
    IN  CHOOSE w \in W : \A v \in W : w <= v

\* the position of every returned path in the discovery order
Positions == [i \in DOMAIN result.items |-> CHOOSE j \in Discovery(result.items[i]) : TRUE]

\* the candidates that were not returned
LeftOut == DOMAIN paths \ Range(Positions)

\* C23: the returned paths are the first 50, or all if there are fewer, of
\* the candidates in descending order of total_profiles, candidates with
\* equal total_profiles in depth-first discovery order
C23_TopFiftyInStableOrder ==
    (result.op = "career_paths" /\ result.error = "")
        => LET pos == Positions
               total == [i \in DOMAIN result.items |-> result.items[i].total_profiles]
               rest == [j \in LeftOut |-> Bottleneck(paths[j])]
           IN  /\ Len(result.items) = (IF Len(paths) < 50 THEN Len(paths) ELSE 50)
               /\ \A i \in DOMAIN result.items :
                      Cardinality(Discovery(result.items[i])) = 1
               /\ \A i \in DOMAIN result.items : \A k \in DOMAIN result.items :
                      i < k => \/ total[i] > total[k]
                               \/ total[i] = total[k] /\ pos[i] < pos[k]
               /\ \A j \in DOMAIN rest : \A i \in DOMAIN result.items :
                      \/ total[i] > rest[j]
                      \/ total[i] = rest[j] /\ pos[i] < j

\* more than 50 candidates were found and 50 returned; two neighbours of the
\* answer are tied, and a candidate tied with the last returned path was
\* left out
C23_Witness ==
    /\ result.op = "career_paths"
    /\ Len(paths) > 50
    /\ Len(result.items) = 50
    /\ \E i \in 1..49 : result.items[i].total_profiles = result.items[i + 1].total_profiles
    /\ \E j \in LeftOut : Bottleneck(paths[j]) = result.items[50].total_profiles

(***************************************************************************)
(* NextStepsView.post on a wide store: everybody studied at MIT and works  *)
(* at Google, and over the years profiles 1 and 2 were re-ingested with    *)
(* one title after another, which left an edge from Google to every title  *)
(* they ever held.                                                         *)
(***************************************************************************)
\* the view's part after the analyzer answered: an error goes out as it is
\* (404), otherwise result['next_steps'][:limit]
next_steps_response(r, n) ==
    IF r.error # "" THEN r ELSE [r EXCEPT !.items = Take(@, n)]

\* NextStepsView.post(selected_nodes, limit) on the analyzer the view has
\* constructed for the request, the UserQuery row included
NextStepsView_post(sel, n) ==
    /\ loader.pc = "ready"
    /\ selected_nodes' = sel
    /\ limit' = n
    /\ result' = next_steps_response(find_next_steps(sel), n)
    /\ UserQuery' = IF result'.error # "" THEN UserQuery
                    ELSE Append(UserQuery, [selected_nodes |-> sel,
                                            results_count |-> Len(result'.items)])
    /\ UNCHANGED << Education, Experience, LinkedInProfile, CareerPath, scrapeVars,
                    storeVars, taskVars, searchVars, loadVars, profile_sequence, matches >>

\* profile 1 held every title, profile 2 every second one
WideMembers(k, x) == IF (k + x) % 2 = 0 THEN {1, 2} ELSE {1}

\* node 1 is MIT, node 2 is Google, nodes 3 .. t + 2 are the titles
WideStore(t, x) ==
    /\ PathNode =
         { [id |-> 1, type |-> "university", value |-> "MIT", profiles_count |-> 2],
           [id |-> 2, type |-> "company", value |-> "Google", profiles_count |-> 2] }
         \cup { [id |-> k + 2, type |-> "title", value |-> "Title " \o ToString(k),
                 profiles_count |-> 0] : k \in 1..t }
    /\ PathConnection =
         { [id |-> 1, from_node |-> 1, to_node |-> 2, weight |-> 2, profiles |-> {1, 2}] }
         \cup { [id |-> k + 1, from_node |-> 2, to_node |-> k + 2,
                 weight |-> Cardinality(WideMembers(k, x)),
                 profiles |-> WideMembers(k, x)] : k \in 1..t }

WideInit ==
    /\ DefaultRecords
    /\ \E t \in (WideTitles - 2)..WideTitles : \E x \in 0..1 : WideStore(t, x)
    /\ pc = [p \in Profiles |-> "idle"]
    /\ runs = [p \in Profiles |-> 0]
    /\ nodes = [p \in Profiles |-> << >>]
    /\ idx = [p \in Profiles |-> 0]
    /\ connection = [p \in Profiles |-> NoConnection]
    /\ count = [p \in Profiles |-> 0]
    /\ graph = EmptyGraph
    /\ NoQuery

\* the selected paths the requests carry; nobody went to "Unknown U"
WidePaths ==
    { << [type |-> "company", value |-> "Google"] >>,
      << [type |-> "university", value |-> "MIT"], [type |-> "company", value |-> "Google"] >>,
      << [type |-> "university", value |-> "Unknown U"] >> }

\* limits around the default, and the largest the serializer lets through
WideLimits == {1, DefaultLimit - 1, DefaultLimit, DefaultLimit + 1, MaxLimit}

WideNext ==
    \/ Construct
    \/ LoadNodes
    \/ LoadConnections
    \/ LoadEdge
    \/ LoadReturn
    \/ Unasked /\ \E sel \in WidePaths : \E n \in WideLimits : NextStepsView_post(sel, n)

WideSpec == WideInit /\ [][WideNext]_vars

\* the successors of L with a member matching the whole selected path
Qualifying(L) == {S \in Range(graph.succ[L]) : QualifyingMembers(L, S) # {}}

\* C24: for a limit N the answer holds min(N, number of qualifying
\* successors) entries, one per successor, in descending order of the
\* matching-profile count, and no successor left out has a larger count than
\* one that is in
C24_TopNOfQualifying ==
    (result.op = "next_steps" /\ result.error = "")
        => \A L \in Resolved :
               /\ Len(result.items) = (IF limit < Cardinality(Qualifying(L))
                                       THEN limit ELSE Cardinality(Qualifying(L)))
               /\ \A i \in DOMAIN result.items :
                      \E S \in Qualifying(L) :
                          /\ EntriesFor(S) = {i}
                          /\ result.items[i].profiles_count =
                                 Cardinality(QualifyingMembers(L, S))
               /\ \A i \in DOMAIN result.items : \A k \in DOMAIN result.items :
                      i < k => result.items[i].profiles_count >=
                                   result.items[k].profiles_count
               /\ \A S \in Qualifying(L) :
                      EntriesFor(S) = {}
                          => \A i \in DOMAIN result.items :
                                 result.items[i].profiles_count >=
                                     Cardinality(QualifyingMembers(L, S))

(***************************************************************************)
(* get_profiles_for_path against the matcher                               *)
(***************************************************************************)
\* sel can be read off seq from left to right: its first element is the
\* first of seq and the rest follows, or all of it follows the first of seq
RECURSIVE Embeds(_, _)
Embeds(sel, seq) ==
    \/ sel = << >>
    \/ /\ seq # << >>
       /\ \/ Head(sel) = Head(seq) /\ Embeds(Tail(sel), Tail(seq))
          \/ Embeds(sel, Tail(seq))

\* the profiles whose career sequence the matcher accepts for the selected
\* path
Accepted ==
    {p \in Profiles : LET seq == career_sequence(p)
                      IN  Embeds(selected_nodes, seq)}

\* C25: for a non-empty selected path every profile the matcher accepts is
\* in the match set of get_profiles_for_path: the match set is at least as
\* large as the accepted set, and when the limit lets the whole match set
\* through, every accepted profile is returned
C25_MatchSetContainsAccepted ==
    (result.op = "profiles" /\ selected_nodes # << >>)
        => /\ result.error = ""
           /\ Cardinality(Accepted) <= result.total
           /\ limit >= result.total => Accepted \subseteq Range(result.items)

\* a two-element path was answered with a profile the matcher accepts and
\* with a profile that has both elements in the other order, which the
\* matcher rejects
C25_Witness ==
    /\ result.op = "profiles"
    /\ Len(selected_nodes) = 2
    /\ selected_nodes[1] # selected_nodes[2]
    /\ \E p \in Range(result.items) : p \in Accepted
    /\ \E p \in Range(result.items) :
           /\ p \notin Accepted
           /\ Embeds(<< selected_nodes[2], selected_nodes[1] >>, career_sequence(p))

(***************************************************************************)
(* Snapshots loaded while ingests run                                      *)
(***************************************************************************)
\* C26: in every snapshot a load returned, both endpoints of every edge are
\* nodes that carry their type and value attributes, and no lookup by
\* (type, value) fails on a node without attributes
C26_SnapshotWellFormed ==
    loader.pc = "ready"
        => /\ \A e \in DOMAIN graph.edge :
                  e[1] \in DOMAIN graph.attr /\ e[2] \in DOMAIN graph.attr
           /\ \A item \in QueryItems : find_node_id(item.type, item.value) # KeyError

(***************************************************************************)
(* The scraper's pipeline: process_scraped_profile stores the profile of   *)
(* a scraping result, generate_career_path its career path, and            *)
(* update_career_graph ingests it. The result with id r is the one for     *)
(* the url r, whose LinkedIn id names the profile r.                       *)
(***************************************************************************)
DataKinds == {"nameless", "cohort", "own"}

\* what scrape_public_profile returned for a url, after clean_profile_data:
\* a page without a name; the career everybody of one cohort has (same
\* university, years, company, title and date); or the default career of
\* the profile
ProfileData(url, kind) ==
    [ full_name |-> IF kind = "nameless" THEN "" ELSE "Name",
      education |->
          IF kind = "cohort"
          THEN << [university |-> "MIT", start_year |-> 1, end_year |-> 5] >>
          ELSE << [university |-> "MIT", start_year |-> url, end_year |-> url + 4] >>,
      experience |->
          IF kind = "cohort"
          THEN << [company |-> "Google", title |-> "SWE", start_date |-> 6] >>
          ELSE << [company |-> "Google", title |-> DefaultTitle(url),
                   start_date |-> url + 5] >> ]

validate_profile_data(data) ==
    /\ data.full_name # ""
    /\ Len(data.education) > 0 \/ Len(data.experience) > 0

\* the url of profile n is .../in/n
extract_linkedin_id(url) == url

\* the id the next row of a profile gets
NewId(p, rows) == p + NumProfiles * Cardinality({e \in rows : e.profile = p})

\* process_education_data: Education.objects.get_or_create for every item
\* with a university name
RECURSIVE process_education_data(_, _, _)
process_education_data(p, items, rows) ==
    IF items = << >> THEN rows
    ELSE LET item == Head(items)
             known == \E e \in rows : e.profile = p /\ e.university = item.university
             row == [id |-> NewId(p, rows), profile |-> p, university |-> item.university,
                     start_year |-> item.start_year, end_year |-> item.end_year]
         IN  process_education_data(p, Tail(items),
                 IF item.university = "" \/ known THEN rows ELSE rows \cup {row})

\* process_experience_data: Experience.objects.get_or_create for every item
\* with a company name and a title
RECURSIVE process_experience_data(_, _, _)
process_experience_data(p, items, rows) ==
    IF items = << >> THEN rows
    ELSE LET item == Head(items)
             known == \E e \in rows : /\ e.profile = p
                                      /\ e.company = item.company
                                      /\ e.title = item.title
             row == [id |-> NewId(p, rows), profile |-> p, company |-> item.company,
                     title |-> item.title, start_date |-> item.start_date]
         IN  process_experience_data(p, Tail(items),
                 IF item.company = "" \/ item.title = "" \/ known
                 THEN rows ELSE rows \cup {row})

ResultOf(r) == CHOOSE row \in ScrapingResult : row.id = r

\* result.processing_status = status; result.save()
SaveStatus(r, status) ==
    ScrapingResult' = (ScrapingResult \ {ResultOf(r)})
                          \cup {[ResultOf(r) EXCEPT !.processing_status = status]}

\* process_scraped_profile up to the end of the `with transaction.atomic()`
\* block: invalid data is marked and the task returns; otherwise the profile
\* and its records are written inside the transaction, and
\* generate_career_path.delay hands the task to the broker at once
ProcBegin(r) ==
    /\ proc[r].pc = "queued"
    /\ LET res == ResultOf(r)
           data == ProfileData(res.linkedin_url, res.profile_data)
           p == extract_linkedin_id(res.linkedin_url)
       IN  IF ~validate_profile_data(data)
           THEN /\ SaveStatus(r, "invalid")
                /\ proc' = [proc EXCEPT ![r] = [pc |-> "done", tx |-> NoTransaction]]
                /\ UNCHANGED gen
           ELSE /\ proc' = [proc EXCEPT ![r] =
                       [pc |-> "commit",
                        tx |-> [profile |-> p,
                                education |->
                                    process_education_data(p, data.education, Education)
                                        \ Education,
                                experience |->
                                    process_experience_data(p, data.experience, Experience)
                                        \ Experience]]]
                /\ gen' = [gen EXCEPT ![p].tasks = @ + 1]
                /\ UNCHANGED ScrapingResult
    /\ UNCHANGED << Education, Experience, UserQuery, LinkedInProfile, CareerPath,
                    jobVars, update_queue, storeVars, taskVars, queryVars >>

\* the transaction commits when the `with` block is left
ProcCommit(r) ==
    /\ proc[r].pc = "commit"
    /\ LinkedInProfile' = LinkedInProfile \cup {proc[r].tx.profile}
    /\ Education' = Education \cup proc[r].tx.education
    /\ Experience' = Experience \cup proc[r].tx.experience
    /\ proc' = [proc EXCEPT ![r] = [pc |-> "save", tx |-> NoTransaction]]
    /\ UNCHANGED << UserQuery, CareerPath, ScrapingResult, jobVars, gen, update_queue,
                    storeVars, taskVars, queryVars >>

\* result.processing_status = 'processed'; result.save()
ProcSave(r) ==
    /\ proc[r].pc = "save"
    /\ SaveStatus(r, "processed")
    /\ proc' = [proc EXCEPT ![r].pc = "done"]
    /\ UNCHANGED << Education, Experience, UserQuery, LinkedInProfile, CareerPath,
                    jobVars, gen, update_queue, storeVars, taskVars, queryVars >>

\* a worker picks up generate_career_path(p): a profile that is not in the
\* table is logged as not found; otherwise the sequences and the hash are
\* built from the records the table holds
GenStart(p) ==
    /\ gen[p].runs < gen[p].tasks
    /\ gen[p].pc \notin {"store"}
    /\ gen' = [gen EXCEPT ![p] =
                  IF p \notin LinkedInProfile
                  THEN [@ EXCEPT !.runs = @ + 1, !.pc = "not_found", !.path = << >>]
                  ELSE [@ EXCEPT !.runs = @ + 1, !.pc = "store",
                                 !.path = << CareerPathRow(p) >>]]
    /\ UNCHANGED << Education, Experience, UserQuery, LinkedInProfile, CareerPath,
                    ScrapingResult, jobVars, proc, update_queue,
                    storeVars, taskVars, queryVars >>

\* CareerPath.objects.get_or_create(profile=profile, defaults=...), and the
\* save of a row that was there: path_hash is unique, so either raises when
\* another profile's row has the hash; the error is logged and the task ends
\* before update_career_graph.delay
GenStore(p) ==
    /\ gen[p].pc = "store"
    /\ IF \E row \in CareerPath : row.profile # p /\ row.path_hash = gen[p].path[1].path_hash
       THEN /\ gen' = [gen EXCEPT ![p].pc = "error"]
            /\ UNCHANGED << CareerPath, update_queue >>
       ELSE /\ CareerPath' = {row \in CareerPath : row.profile # p} \cup {gen[p].path[1]}
            /\ update_queue' = [update_queue EXCEPT ![p] = @ + 1]
            /\ gen' = [gen EXCEPT ![p].pc = "done"]
    /\ UNCHANGED << Education, Experience, UserQuery, LinkedInProfile,
                    ScrapingResult, jobVars, proc, storeVars, taskVars, queryVars >>

\* a worker picks up an update_career_graph task that generate_career_path
\* enqueued
UpdateStart(p) ==
    /\ runs[p] < update_queue[p]
    /\ StartWithin(p, NumUrls)

\* the profiles that were processed before: they studied at CMU
Earlier == {{}, {1}}

\* the results of a job were stored and their processing enqueued; the graph
\* store is empty
PipelineInit ==
    /\ \E known \in Earlier :
          /\ LinkedInProfile = known
          /\ Education = UNION {EducationOf(p, "cmu") : p \in known}
          /\ Experience = {}
          /\ CareerPath = {CareerPathRow(p) : p \in known}
    /\ \E kind \in [Results -> DataKinds] :
          ScrapingResult = { [id |-> r, target |-> 1, linkedin_url |-> r,
                              profile_data |-> kind[r], processing_status |-> "raw"] :
                             r \in Results }
    /\ ScrapingJob = [status |-> "completed", profiles_scraped |-> NumUrls,
                      profiles_failed |-> 0]
    /\ view = [pc |-> "idle", job |-> NoJob]
    /\ main = [pc |-> "idle", job |-> NoJob, todo |-> << >>, tasks |-> 0]
    /\ target = [t \in Targets |-> [pc |-> "idle", job |-> NoJob, urls |-> << >>,
                                     scraped_count |-> 0]]
    /\ proc = [r \in Results |-> [pc |-> "queued", tx |-> NoTransaction]]
    /\ gen = [p \in Profiles |-> [tasks |-> 0, runs |-> 0, pc |-> "idle", path |-> << >>]]
    /\ update_queue = [p \in Profiles |-> 0]
    /\ UserQuery = << >>
    /\ PathNode = {}
    /\ PathConnection = {}
    /\ pc = [p \in Profiles |-> "idle"]
    /\ runs = [p \in Profiles |-> 0]
    /\ nodes = [p \in Profiles |-> << >>]
    /\ idx = [p \in Profiles |-> 0]
    /\ connection = [p \in Profiles |-> NoConnection]
    /\ count = [p \in Profiles |-> 0]
    /\ graph = EmptyGraph
    /\ loader = NoLoader
    /\ load_log = << >>
    /\ limit = 0
    /\ result = NoResult
    /\ start_node = 0
    /\ max_depth = 0
    /\ paths = << >>
    /\ profile_sequence = << >>
    /\ selected_nodes = << >>
    /\ matches = << >>

\* the workers run the tasks of the pipeline concurrently
PipelineNext ==
    \/ \E r \in Results : ProcBegin(r) \/ ProcCommit(r) \/ ProcSave(r)
    \/ \E p \in Profiles : GenStart(p) \/ GenStore(p)
    \/ \E p \in Profiles : UpdateStart(p) \/ Step(p)

PipelineSpec == PipelineInit /\ [][PipelineNext]_vars

\* every task that was handed to the broker is run by some worker
PipelineFairSpec == PipelineSpec /\ WF_vars(PipelineNext)

\* generate_career_path ran for the profile and built its sequences from the
\* records the table holds now
FoundStored(p) ==
    /\ gen[p].pc \in {"store", "done", "error"}
    /\ gen[p].path = << CareerPathRow(p) >>

\* C27: every scraping result that process_scraped_profile marks 'processed'
\* is eventually followed by a generate_career_path run that finds the
\* committed profile with its newly stored education and experience
\* records, and then by an update_career_graph run for that profile,
\* however the worker that picks up the enqueued task interleaves with the
\* commit of the transaction
C27_ProcessedIsFollowedByPathAndIngest ==
    \A r \in Results :
        (ResultOf(r).processing_status = "processed")
            ~> (/\ FoundStored(extract_linkedin_id(ResultOf(r).linkedin_url))
                /\ runs[extract_linkedin_id(ResultOf(r).linkedin_url)] > 0)

\* generate_career_path ran to its end for a profile it found in the table
GeneratedFor(p) == gen[p].runs > 0 /\ gen[p].pc \notin {"idle", "store", "not_found"}

\* C28: for every existing profile on which generate_career_path runs, a
\* CareerPath record is stored for that profile and update_career_graph is
\* enqueued for it, whatever the career paths of the other profiles are: two
\* profiles with identical sequences both get a record and an ingest
C28_EveryProfileGetsPathAndIngest ==
    \A p \in Profiles :
        GeneratedFor(p) => HasCareerPath(p) /\ update_queue[p] > 0

(***************************************************************************)
(* The scraping job: StartScrapingJobView.post, scrape_linkedin_profiles   *)
(* and one scrape_target_profiles task for each target. Every job.save()   *)
(* writes all columns of the row from the object the caller holds.         *)
(***************************************************************************)

\* the profile urls a target comes up with: its own url, or what the search
\* finds
UrlLists == {us \in SeqsUpTo(Urls, NumUrls) : us # << >> /\ Cardinality(Range(us)) = Len(us)}

\* a request to start the job, when no other is being served:
\* job = ScrapingJob.objects.get(pk=pk); a job that is not pending is
\* refused; otherwise scrape_linkedin_profiles.delay(job.id)
ViewStart ==
    /\ view.pc # "save"
    /\ IF ScrapingJob.status # "pending"
       THEN /\ view' = [pc |-> "refused", job |-> NoJob]
            /\ UNCHANGED main
       ELSE /\ view' = [pc |-> "save", job |-> ScrapingJob]
            /\ main' = [main EXCEPT !.tasks = @ + 1]
    /\ UNCHANGED << Education, Experience, UserQuery, LinkedInProfile, CareerPath,
                    ScrapingJob, ScrapingResult, target, pipeVars,
                    storeVars, taskVars, queryVars >>

\* job.status = 'running'; job.save()
ViewSave ==
    /\ view.pc = "save"
    /\ ScrapingJob' = [view.job EXCEPT !.status = "running"]
    /\ view' = [pc |-> "done", job |-> NoJob]
    /\ UNCHANGED << Education, Experience, UserQuery, LinkedInProfile, CareerPath,
                    ScrapingResult, main, target, pipeVars,
                    storeVars, taskVars, queryVars >>

\* scrape_linkedin_profiles is picked up: job = get; status 'running'; save
MainStart ==
    /\ main.pc = "idle"
    /\ main.tasks > 0
    /\ ScrapingJob' = [ScrapingJob EXCEPT !.status = "running"]
    /\ main' = [pc |-> "schedule", job |-> ScrapingJob',
                todo |-> [t \in Targets |-> t], tasks |-> main.tasks - 1]
    /\ UNCHANGED << Education, Experience, UserQuery, LinkedInProfile, CareerPath,
                    ScrapingResult, view, target, pipeVars,
                    storeVars, taskVars, queryVars >>

\* scrape_target_profiles.delay(job_id, target.id) for the next target
MainSchedule ==
    /\ main.pc = "schedule"
    /\ main.todo # << >>
    /\ target' = [target EXCEPT ![Head(main.todo)].pc = "queued"]
    /\ main' = [main EXCEPT !.todo = Tail(@)]
    /\ UNCHANGED << Education, Experience, UserQuery, LinkedInProfile, CareerPath,
                    ScrapingJob, ScrapingResult, view, pipeVars,
                    storeVars, taskVars, queryVars >>

\* all targets are scheduled: job.status = 'completed'; job.save()
MainComplete ==
    /\ main.pc = "schedule"
    /\ main.todo = << >>
    /\ ScrapingJob' = [main.job EXCEPT !.status = "completed"]
    /\ main' = [main EXCEPT !.pc = "done", !.job = NoJob]
    /\ UNCHANGED << Education, Experience, UserQuery, LinkedInProfile, CareerPath,
                    ScrapingResult, view, target, pipeVars,
                    storeVars, taskVars, queryVars >>

\* scrape_target_profiles is picked up: job = ScrapingJob.objects.get(id=job_id)
\* and the profile urls of the target
TargetStart(t) ==
    /\ target[t].pc = "queued"
    /\ \E us \in UrlLists :
          target' = [target EXCEPT ![t] =
                        [pc |-> "check", job |-> ScrapingJob, urls |-> us,
                         scraped_count |-> 0]]
    /\ UNCHANGED << Education, Experience, UserQuery, LinkedInProfile, CareerPath,
                    ScrapingJob, ScrapingResult, view, main, pipeVars,
                    storeVars, taskVars, queryVars >>

Scraped(url) == \E row \in ScrapingResult : row.linkedin_url = url

\* the next url: skipped when the job has a result for it; otherwise the
\* page is scraped, and the scraper returns the profile data or nothing
TargetCheck(t) ==
    /\ target[t].pc = "check"
    /\ target[t].urls # << >>
    /\ IF Scraped(Head(target[t].urls))
       THEN target' = [target EXCEPT ![t].urls = Tail(@)]
       ELSE \E next \in {"create", "fail"} : target' = [target EXCEPT ![t].pc = next]
    /\ UNCHANGED << Education, Experience, UserQuery, LinkedInProfile, CareerPath,
                    ScrapingJob, ScrapingResult, view, main, pipeVars,
                    storeVars, taskVars, queryVars >>

\* ScrapingResult.objects.create(...), which raises when the job got a
\* result for the url in the meantime (unique_together), and
\* process_scraped_profile.delay(result.id)
TargetCreate(t) ==
    /\ target[t].pc = "create"
    /\ IF Scraped(Head(target[t].urls))
       THEN /\ target' = [target EXCEPT ![t].pc = "fail"]
            /\ UNCHANGED << ScrapingResult, proc >>
       ELSE LET id == Cardinality(ScrapingResult) + 1
            IN  /\ \E kind \in DataKinds :
                      ScrapingResult' = ScrapingResult \cup
                          { [id |-> id, target |-> t, linkedin_url |-> Head(target[t].urls),
                             profile_data |-> kind, processing_status |-> "raw"] }
                /\ proc' = [proc EXCEPT ![id].pc = "queued"]
                /\ target' = [target EXCEPT ![t].pc = "count"]
    /\ UNCHANGED << Education, Experience, UserQuery, LinkedInProfile, CareerPath,
                    ScrapingJob, view, main, gen, update_queue,
                    storeVars, taskVars, queryVars >>

\* scraped_count += 1; job.profiles_scraped += 1; job.save()
TargetCount(t) ==
    /\ target[t].pc = "count"
    /\ ScrapingJob' = [target[t].job EXCEPT !.profiles_scraped = @ + 1]
    /\ target' = [target EXCEPT ![t] =
                     [pc |-> "check", job |-> ScrapingJob', urls |-> Tail(target[t].urls),
                      scraped_count |-> target[t].scraped_count + 1]]
    /\ UNCHANGED << Education, Experience, UserQuery, LinkedInProfile, CareerPath,
                    ScrapingResult, view, main, pipeVars,
                    storeVars, taskVars, queryVars >>

\* job.profiles_failed += 1; job.save()
TargetFail(t) ==
    /\ target[t].pc = "fail"
    /\ ScrapingJob' = [target[t].job EXCEPT !.profiles_failed = @ + 1]
    /\ target' = [target EXCEPT ![t] =
                     [@ EXCEPT !.pc = "check", !.job = ScrapingJob', !.urls = Tail(@)]]
    /\ UNCHANGED << Education, Experience, UserQuery, LinkedInProfile, CareerPath,
                    ScrapingResult, view, main, pipeVars,
                    storeVars, taskVars, queryVars >>

\* target.scraped_count = scraped_count; target.save()
TargetDone(t) ==
    /\ target[t].pc = "check"
    /\ target[t].urls = << >>
    /\ target' = [target EXCEPT ![t].pc = "done", ![t].job = NoJob]
    /\ UNCHANGED << Education, Experience, UserQuery, LinkedInProfile, CareerPath,
                    ScrapingJob, ScrapingResult, view, main, pipeVars,
                    storeVars, taskVars, queryVars >>

\* the request and the tasks of one job; the workers run the tasks
\* concurrently
JobNext ==
    \/ ViewStart \/ ViewSave
    \/ MainStart \/ MainSchedule \/ MainComplete
    \/ \E t \in Targets :
          \/ TargetStart(t) \/ TargetCheck(t) \/ TargetCreate(t)
          \/ TargetCount(t) \/ TargetFail(t) \/ TargetDone(t)

JobSpec == Init /\ [][JobNext]_vars

\* C29: the status 'completed' of a scraping job is final: once
\* scrape_linkedin_profiles has stored it, no later step of the view or of a
\* scrape_target_profiles task stores a different status
C29_CompletedIsFinal ==
    [][ScrapingJob.status = "completed" => ScrapingJob'.status = "completed"]_vars

\* no request is being served and every task of the job came to its end
JobFinished ==
    /\ view.pc # "save"
    /\ main.pc = "done"
    /\ \A t \in Targets : target[t].pc = "done"

\* C30: when all tasks of a scraping job have finished, its profiles_scraped
\* counter equals the number of ScrapingResult records created for the job
C30_ScrapedCountsResults ==
    JobFinished => ScrapingJob.profiles_scraped = Cardinality(ScrapingResult)

====
